---------------------------- MODULE Spec2Model ----------------------------
(***************************************************************************)
(* A model of the authgate CLI (go-authgate/cli).                          *)
(*                                                                         *)
(* Part I,  the token store (src/tokens.go): loadTokens and saveTokens,    *)
(*          step by step at the granularity of their system calls, over a  *)
(*          file system with inodes, a temp file and a .lock sidecar.      *)
(* Part II, the callback listener (src/unnamed/part_003,                   *)
(*          startCallbackServer) and the part of performBrowserFlow        *)
(*          (src/unnamed/part_001) that consumes its result.               *)
(*                                                                         *)
(* acquireFileLock / fileLock.release are called by saveTokens but their   *)
(* code is not among the sources; they are modelled from the lock protocol *)
(* of spec.md section 4.1.  The same holds for the ctx.Done() branch of    *)
(* startCallbackServer's select (its callers pass a context, the           *)
(* definition in part_003 predates it).                                    *)
(***************************************************************************)
EXTENDS Integers, Sequences, FiniteSets, TLC

(***************************************************************************)
(* Bounds of the model.                                                    *)
(***************************************************************************)
NumWriters == 2
NumRequests == 2

Writers == 1..NumWriters
Requests == 1..NumRequests

VARIABLES
    \* ---- token store ----
    pc,          \* pc[w]: position of writer w inside saveTokens
    rec,         \* rec[w]: the *TokenStorage argument (after line 53-55)
    result,      \* result[w]: what saveTokens returned
    data,        \* data[w]: the bytes produced by json.MarshalIndent
    fd,          \* fd[w]: inode opened by os.WriteFile (0: none)
    lockOwner,   \* creator of the .lock sidecar (0: no sidecar)
    lockStale,   \* the sidecar's mtime is older than staleLockTimeout
    fileIno,     \* inode the name tokenFile refers to (0: absent)
    tmpIno,      \* inode the name tokenFile+".tmp" refers to (0: absent)
    inode,       \* inode[i]: content of inode i
    loaded,      \* outcome of the latest loadTokens call, with lastSaved of
                 \* its client and lastCid as they were at the call
    lastSaved,   \* lastSaved[c]: record of the latest successful rename for
                 \* client c (history variable)
    lastCid,     \* client of the latest successful rename (history variable)
    \* ---- callback listener ----
    cpc,         \* position of startCallbackServer
    woken,       \* select case that woke the blocked select
    listening,   \* the listener ln is open (port bound)
    elapsed,     \* minutes on the time.After(callbackTimeout) timer
    ctxCancelled,\* ctx.Done() is closed
    resultCh,    \* the buffered channel resultCh
    onceDone,    \* sync.Once has run
    sends,       \* number of sends on resultCh (history variable)
    deliveredBy, \* request whose result was sent (history variable, 0: none)
    sendTime,    \* value of elapsed at the send (history variable, -1: none)
    hpc,         \* hpc[h]: position of the handler goroutine of request h
    req,         \* req[h]: the request's path and query parameters
    hres,        \* hres[h]: the callbackResult the handler passes to sendResult
    page,        \* page[h]: what the handler wrote to the browser tab
    outcome,     \* what startCallbackServer returned
    fpc,         \* position of performBrowserFlow
    exchangeCalls, \* number of exchangeCode invocations
    flowResult,  \* what performBrowserFlow returned
    \* ---- main and authenticate ----
    mpc,         \* position of main / authenticate
    now,         \* time.Now() at the expiry test of main
    forceDevice, \* the --device / --no-browser flag
    existing,    \* main's variable existing (the record loadTokens returned)
    newStorage,  \* the record refreshAccessToken has built
    storage,     \* main's variable storage (NoRecord: nil)
    ran,         \* what has run so far, in order (history variable)
    refreshResp, \* the token endpoint's answer to the refresh request
    refreshErr,  \* what refreshAccessToken returned as its error
    authErr,     \* what authenticate returned as its error
    \* ---- device-flow poller ----
    ppc,         \* position of pollForTokenWithProgress
    pollBase,    \* the initial poll period, in seconds
    pollInterval,\* the current poll period, in units of 1/PollUnit s
    slowDowns,   \* number of slow_down responses so far (history variable)
    lastResponse,\* the latest poll response (history variable)
    pollResult,  \* what the poller returned: "token" or the error's message
    pollCtx,     \* the caller's context: "live", "canceled" or "deadline"
    pollElapsed, \* time since the device code was issued
    pollsSent,   \* number of poll requests sent so far (history variable)
    continued,   \* number of non-terminal responses so far (history variable)
    inflight,    \* number of poll requests sent and not yet answered or aborted
    uiTicks,     \* number of progress dots printed
    answerToken, \* the access token of the latest response ("": none)
    pollToken,   \* the access token the poller returned ("": none)
    pollErrWraps,\* the errors in the chain of the error the poller returned
    \* ---- environment probe ----
    qpc,         \* position of checkBrowserAvailability
    probeEnv,    \* the environment the probe runs in
    probeRes,    \* the BrowserAvailability it returned
    probeLn,     \* the probe's listener: "none", "open" or "closed"
    prevEnv,     \* the environment of the run before this one
    prevRes,     \* the result of the run before this one
    change,      \* how the environment was changed between the two runs
    \* ---- token requests of the flows ----
    opc,         \* position of the operation that obtains or renews tokens
    ops,         \* number of operations finished
    opKind,      \* "browser", "device" or "refresh"
    clientSecret,\* the configured client secret ("": public client)
    pkce,        \* the PKCEParams of the browser-flow attempt
    authURL,     \* the query parameters of the authorization URL
    form,        \* the form of the token request
    opResp,      \* the token endpoint's answer
    opErr,       \* the error the operation returned ("": none)
    opStorage,   \* the record the operation returned
    fileBefore,  \* the token file when the operation began (history variable)
    origin       \* the flow that obtained the stored tokens (history variable)

storeVars == <<pc, rec, result, data, fd, lockOwner, lockStale, fileIno, tmpIno,
               inode, loaded, lastSaved, lastCid>>
cbVars == <<cpc, woken, listening, elapsed, ctxCancelled, resultCh, onceDone,
            sends, deliveredBy, sendTime, hpc, req, hres, page, outcome, fpc,
            exchangeCalls, flowResult>>
mainVars == <<mpc, now, forceDevice, existing, newStorage, storage, ran, refreshResp,
             refreshErr, authErr>>
pollVars == <<ppc, pollBase, pollInterval, slowDowns, lastResponse, pollResult,
              pollCtx, pollElapsed, pollsSent, continued, inflight, uiTicks,
              answerToken, pollToken, pollErrWraps>>
probeVars == <<qpc, probeEnv, probeRes, probeLn, prevEnv, prevRes, change>>
opVars == <<opc, ops, opKind, clientSecret, pkce, authURL, form, opResp, opErr,
            opStorage, fileBefore, origin>>
vars == <<storeVars, cbVars, mainVars, pollVars, probeVars, opVars>>

\* What an action of one part leaves alone in the other parts.
otherThanStore == <<cbVars, mainVars, pollVars, probeVars, opVars>>
otherThanCallback == <<storeVars, mainVars, pollVars, probeVars, opVars>>
otherThanMain == <<storeVars, cbVars, pollVars, probeVars, opVars>>
otherThanPoll == <<storeVars, cbVars, mainVars, probeVars, opVars>>
otherThanProbe == <<storeVars, cbVars, mainVars, pollVars, opVars>>

(***************************************************************************)
(* PART I: THE TOKEN STORE                                                 *)
(***************************************************************************)

\* Client identifiers; "" is the unset ClientID of a TokenStorage.
ClientIDs == {"a", "b"}

\* time.Time: the wall-clock instant and whether a monotonic reading is
\* attached (time.Now() attaches one, JSON never carries it).
Times == [wall : {"T1", "T2"}, mono : BOOLEAN]

\* Values of the TokenStorage struct the callers pass to saveTokens.
RecordShapes ==
    { [AccessToken |-> "access-1", RefreshToken |-> "refresh-1",
       TokenType |-> "Bearer", ExpiresAt |-> [wall |-> "T1", mono |-> TRUE],
       Flow |-> "browser"],
      [AccessToken |-> "access-2", RefreshToken |-> "",
       TokenType |-> "", ExpiresAt |-> [wall |-> "T2", mono |-> FALSE],
       Flow |-> ""] }

WithClientID(shape, c) ==
    [AccessToken |-> shape.AccessToken, RefreshToken |-> shape.RefreshToken,
     TokenType |-> shape.TokenType, ExpiresAt |-> shape.ExpiresAt,
     ClientID |-> c, Flow |-> shape.Flow]

Records == { WithClientID(s, c) : s \in RecordShapes, c \in ClientIDs \cup {""} }

NoRecord == WithClientID([AccessToken |-> "", RefreshToken |-> "", TokenType |-> "",
                          ExpiresAt |-> [wall |-> "", mono |-> FALSE], Flow |-> ""], "")

EmptyMap == [c \in {} |-> NoRecord]

\* json.Marshal of one TokenStorage: the struct tags of the type; "flow" has
\* omitempty, time.Time is written as RFC 3339 text of the wall instant.
MarshalRecordNoRefresh(r) ==
    LET base == [k \in {"access_token", "refresh_token", "token_type",
                        "expires_at", "client_id"} |->
                   CASE k = "access_token"  -> r.AccessToken
                     [] k = "refresh_token" -> ""
                     [] k = "token_type"    -> r.TokenType
                     [] k = "expires_at"    -> r.ExpiresAt.wall
                     [] OTHER               -> r.ClientID]
    IN  IF r.Flow = "" THEN base
        ELSE [k \in DOMAIN base \cup {"flow"} |->
                 IF k = "flow" THEN r.Flow ELSE base[k]]

MarshalRecord(r) ==
    LET base == [k \in {"access_token", "refresh_token", "token_type",
                        "expires_at", "client_id"} |->
                   CASE k = "access_token"  -> r.AccessToken
                     [] k = "refresh_token" -> r.RefreshToken
                     [] k = "token_type"    -> r.TokenType
                     [] k = "expires_at"    -> r.ExpiresAt.wall
                     [] OTHER               -> r.ClientID]
    IN  IF r.Flow = "" THEN base
        ELSE [k \in DOMAIN base \cup {"flow"} |->
                 IF k = "flow" THEN r.Flow ELSE base[k]]

\* json.Unmarshal into a TokenStorage: a missing key leaves the zero value.
JsonGet(j, k) == IF k \in DOMAIN j THEN j[k] ELSE ""

UnmarshalRecord(j) ==
    [AccessToken  |-> JsonGet(j, "access_token"),
     RefreshToken |-> JsonGet(j, "refresh_token"),
     TokenType    |-> JsonGet(j, "token_type"),
     ExpiresAt    |-> [wall |-> JsonGet(j, "expires_at"), mono |-> FALSE],
     ClientID     |-> JsonGet(j, "client_id"),
     Flow         |-> JsonGet(j, "flow")]

\* File contents.  A complete file is the text json.MarshalIndent wrote: the
\* "tokens" object, keyed by client id.  A file that os.WriteFile has opened
\* with O_TRUNC and not yet written holds no bytes and does not parse.
Truncated == [complete |-> FALSE, tokens |-> [c \in {} |-> MarshalRecord(NoRecord)]]

\* json.MarshalIndent(storageMap): TokenStorageMap{Tokens: m}.
MarshalMap(m) == [complete |-> TRUE, tokens |-> [c \in DOMAIN m |-> MarshalRecord(m[c])]]

\* A file that parses and has no "tokens" member (or a null one), such as
\* "{}": json.Unmarshal leaves storageMap.Tokens nil.
NullMapFile == [complete |-> TRUE, null |-> TRUE, tokens |-> [c \in {} |-> MarshalRecord(NoRecord)]]

\* json.Unmarshal(bytes, &storageMap): ok = FALSE is a parse error; nil says
\* that Tokens was left nil.
UnmarshalMap(bytes) ==
    IF bytes.complete
    THEN [ok |-> TRUE, nil |-> "null" \in DOMAIN bytes,
          Tokens |-> [c \in DOMAIN bytes.tokens |-> UnmarshalRecord(bytes.tokens[c])]]
    ELSE [ok |-> FALSE, nil |-> TRUE, Tokens |-> EmptyMap]

\* os.ReadFile(tokenFile): err (file does not exist) or the bytes.
ReadFile == IF fileIno = 0 THEN [err |-> TRUE, bytes |-> Truncated]
            ELSE [err |-> FALSE, bytes |-> inode[fileIno]]

\* saveTokens lines 63-71: the mapping the save starts from.
ExistingMapDropAll(f) == EmptyMap

ExistingMap(f) ==
    IF f.err THEN EmptyMap
    ELSE IF UnmarshalMap(f.bytes).ok THEN UnmarshalMap(f.bytes).Tokens
    ELSE EmptyMap

\* saveTokens line 73: storageMap.Tokens[storage.ClientID] = storage.
PutEntry(m, r) ==
    [c \in DOMAIN m \cup {r.ClientID} |-> IF c = r.ClientID THEN r ELSE m[c]]

\* A saveTokens that stores the record as it was passed.
DefaultClientIDNever(r, clientID) == r

\* saveTokens lines 53-55: an empty ClientID is set to the configured clientID.
DefaultClientID(r, clientID) ==
    IF r.ClientID = "" THEN [r EXCEPT !.ClientID = clientID] ELSE r

\* A loadTokens that reports a file it cannot parse as one without tokens.
LoadTokensParseAsMissing(clientID) ==
    LET f == ReadFile
        m == UnmarshalMap(f.bytes)
    IN  IF f.err THEN [kind |-> "not_exist", rec |-> NoRecord]
        ELSE IF ~m.ok \/ m.nil THEN [kind |-> "no_tokens", rec |-> NoRecord]
        ELSE IF clientID \in DOMAIN m.Tokens THEN [kind |-> "ok", rec |-> m.Tokens[clientID]]
        ELSE [kind |-> "not_found", rec |-> NoRecord]

\* loadTokens lines 34-50, for the configured clientID.
LoadTokens(clientID) ==
    LET f == ReadFile
        m == UnmarshalMap(f.bytes)
    IN  IF f.err THEN [kind |-> "not_exist", rec |-> NoRecord]
        ELSE IF ~m.ok THEN [kind |-> "parse_error", rec |-> NoRecord]
        ELSE IF m.nil THEN [kind |-> "no_tokens", rec |-> NoRecord]
        ELSE IF clientID \in DOMAIN m.Tokens THEN [kind |-> "ok", rec |-> m.Tokens[clientID]]
        ELSE [kind |-> "not_found", rec |-> NoRecord]

\* The error loadTokens returns with each outcome: its message and the
\* errors it wraps (line 37: the *PathError of os.ReadFile; line 41: %w of
\* the json error; lines 44 and 49: plain errors).
LoadError(kind) ==
    CASE kind = "not_exist"   -> [msg |-> "open: no such file or directory",
                                  wraps |-> {"fs.ErrNotExist"}]
      [] kind = "parse_error" -> [msg |-> "failed to parse token file", wraps |-> {"json"}]
      [] kind = "no_tokens"   -> [msg |-> "no tokens in file", wraps |-> {}]
      [] kind = "not_found"   -> [msg |-> "no tokens found for client_id", wraps |-> {}]
      [] OTHER                -> [msg |-> "", wraps |-> {}]

\* Positions of a saveTokens call between acquiring the lock and releasing it.
CriticalPcs == {"read", "write_open", "write_data", "rename", "release"}
InCritical(w) == pc[w] \in CriticalPcs
Finished(w) == pc[w] \in {"done", "crashed"}

\* The inode a writer's os.WriteFile creates when the temp name is free, and
\* the inode of a token file that existed before any save.
NewInode(w) == w
PreexistingInode == NumWriters + 1

NoLoad == [kind |-> "none", cid |-> "", rec |-> NoRecord, expect |-> NoRecord, after |-> ""]

InitStore ==
    /\ pc = [w \in Writers |-> "idle"]
    /\ rec = [w \in Writers |-> NoRecord]
    /\ result = [w \in Writers |-> "none"]
    /\ data = [w \in Writers |-> Truncated]
    /\ fd = [w \in Writers |-> 0]
    /\ lockOwner = 0
    /\ lockStale = FALSE
    /\ fileIno = 0
    /\ tmpIno = 0
    /\ inode = [i \in 1..(NumWriters + 1) |-> Truncated]
    /\ loaded = NoLoad
    /\ lastSaved = [c \in ClientIDs |-> NoRecord]
    /\ lastCid = ""

\* The state the tests start from: os.CreateTemp has made tokenFile, empty.
InitStoreEmptyFile ==
    /\ pc = [w \in Writers |-> "idle"]
    /\ rec = [w \in Writers |-> NoRecord]
    /\ result = [w \in Writers |-> "none"]
    /\ data = [w \in Writers |-> Truncated]
    /\ fd = [w \in Writers |-> 0]
    /\ lockOwner = 0
    /\ lockStale = FALSE
    /\ fileIno = PreexistingInode
    /\ tmpIno = 0
    /\ inode = [i \in 1..(NumWriters + 1) |-> Truncated]
    /\ loaded = NoLoad
    /\ lastSaved = [c \in ClientIDs |-> NoRecord]
    /\ lastCid = ""

\* A token file that parses and has no "tokens" member.
InitStoreNullMap ==
    /\ pc = [w \in Writers |-> "idle"]
    /\ rec = [w \in Writers |-> NoRecord]
    /\ result = [w \in Writers |-> "none"]
    /\ data = [w \in Writers |-> Truncated]
    /\ fd = [w \in Writers |-> 0]
    /\ lockOwner = 0
    /\ lockStale = FALSE
    /\ fileIno = PreexistingInode
    /\ tmpIno = 0
    /\ inode = [i \in 1..(NumWriters + 1) |->
                  IF i = PreexistingInode THEN NullMapFile ELSE Truncated]
    /\ loaded = NoLoad
    /\ lastSaved = [c \in ClientIDs |-> NoRecord]
    /\ lastCid = ""

\* saveTokens is called with record r by a process configured with clientID.
SaveStart(w, r, clientID) ==
    /\ pc[w] = "idle"
    /\ rec' = [rec EXCEPT ![w] = DefaultClientID(r, clientID)]
    /\ pc' = [pc EXCEPT ![w] = "lock"]
    /\ UNCHANGED otherThanStore
    /\ UNCHANGED <<result, data, fd, lockOwner, lockStale, fileIno, tmpIno,
                   inode, loaded, lastSaved, lastCid>>

\* acquireFileLock: the exclusive create of the sidecar succeeds.
LockAcquire(w) ==
    /\ pc[w] = "lock"
    /\ lockOwner = 0
    /\ lockOwner' = w
    /\ lockStale' = FALSE
    /\ pc' = [pc EXCEPT ![w] = "read"]
    /\ UNCHANGED otherThanStore
    /\ UNCHANGED <<rec, result, data, fd, fileIno, tmpIno, inode, loaded,
                   lastSaved, lastCid>>

\* acquireFileLock: the create fails and the sidecar's modification time is
\* inspected; a stale sidecar is to be removed, a fresh one is waited for
\* (the attempt is repeated after a pause).
LockInspect(w) ==
    /\ pc[w] = "lock"
    /\ lockOwner # 0
    /\ lockStale
    /\ pc' = [pc EXCEPT ![w] = "remove_stale"]
    /\ UNCHANGED otherThanStore
    /\ UNCHANGED <<rec, result, data, fd, lockOwner, lockStale, fileIno, tmpIno,
                   inode, loaded, lastSaved, lastCid>>

\* acquireFileLock: the sidecar found stale is removed (by path) and the
\* create is retried.
LockRemoveStale(w) ==
    /\ pc[w] = "remove_stale"
    /\ lockOwner' = 0
    /\ lockStale' = FALSE
    /\ pc' = [pc EXCEPT ![w] = "lock"]
    /\ UNCHANGED otherThanStore
    /\ UNCHANGED <<rec, result, data, fd, fileIno, tmpIno, inode, loaded,
                   lastSaved, lastCid>>

\* acquireFileLock: the retry loop is bounded by a wall-clock budget, which a
\* waiter uses up while the sidecar of owner is there.
RetryBudgetUnbounded(owner) == FALSE

RetryBudgetRunsOut(owner) == owner # 0

\* acquireFileLock: the retry budget is used up; saveTokens returns
\* "failed to acquire lock" (lines 58-60).
LockTimeout(w) ==
    /\ pc[w] = "lock"
    /\ RetryBudgetRunsOut(lockOwner)
    /\ result' = [result EXCEPT ![w] = "err_lock"]
    /\ rec' = [rec EXCEPT ![w] = NoRecord]
    /\ pc' = [pc EXCEPT ![w] = "done"]
    /\ UNCHANGED otherThanStore
    /\ UNCHANGED <<data, fd, lockOwner, lockStale, fileIno, tmpIno, inode,
                   loaded, lastSaved, lastCid>>

\* More than staleLockTimeout passes since the sidecar was created.
LockAges ==
    /\ lockOwner # 0
    /\ ~lockStale
    /\ lockStale' = TRUE
    /\ UNCHANGED otherThanStore
    /\ UNCHANGED <<pc, rec, result, data, fd, lockOwner, fileIno, tmpIno, inode,
                   loaded, lastSaved, lastCid>>

\* json.MarshalIndent (line 75) fails on a time.Time whose year is outside
\* 0..9999; every other TokenStorage value is serialized.
Marshalable(r) == r.ExpiresAt.wall # "Y10000"

\* saveTokens lines 63-78: read, merge, insert, serialize.
ReadMerge(w) ==
    /\ pc[w] = "read"
    /\ Marshalable(rec[w])
    /\ data' = [data EXCEPT ![w] = MarshalMap(PutEntry(ExistingMap(ReadFile), rec[w]))]
    /\ pc' = [pc EXCEPT ![w] = "write_open"]
    /\ UNCHANGED otherThanStore
    /\ UNCHANGED <<rec, result, fd, lockOwner, lockStale, fileIno, tmpIno, inode,
                   loaded, lastSaved, lastCid>>

\* os.WriteFile line 81, first half: open(tmp, O_WRONLY|O_CREATE|O_TRUNC).
WriteOpen(w) ==
    /\ pc[w] = "write_open"
    /\ IF tmpIno = 0
       THEN /\ tmpIno' = NewInode(w)
            /\ inode' = [inode EXCEPT ![NewInode(w)] = Truncated]
            /\ fd' = [fd EXCEPT ![w] = NewInode(w)]
       ELSE /\ inode' = [inode EXCEPT ![tmpIno] = Truncated]
            /\ fd' = [fd EXCEPT ![w] = tmpIno]
            /\ UNCHANGED tmpIno
    /\ pc' = [pc EXCEPT ![w] = "write_data"]
    /\ UNCHANGED otherThanStore
    /\ UNCHANGED <<rec, result, data, lockOwner, lockStale, fileIno, loaded,
                   lastSaved, lastCid>>

\* os.WriteFile line 81, second half: write the bytes to the open file, close.
WriteData(w) ==
    /\ pc[w] = "write_data"
    /\ inode' = [inode EXCEPT ![fd[w]] = data[w]]
    /\ data' = [data EXCEPT ![w] = Truncated]
    /\ fd' = [fd EXCEPT ![w] = 0]
    /\ pc' = [pc EXCEPT ![w] = "rename"]
    /\ UNCHANGED otherThanStore
    /\ UNCHANGED <<rec, result, lockOwner, lockStale, fileIno, tmpIno, loaded,
                   lastSaved, lastCid>>

\* An inode that has lost its last name and is open nowhere is freed.
Unlinked(ino, i) ==
    IF i # 0 /\ (\A w \in Writers : fd[w] # i)
    THEN [ino EXCEPT ![i] = Truncated] ELSE ino

\* saveTokens lines 85-92: the error returned after a failed rename, by
\* whether os.Remove of the temp file failed as well.
RenameErrorHidesRemoval(removeFailed) == "err_rename"

RenameError(removeFailed) ==
    IF removeFailed THEN "err_rename_remove" ELSE "err_rename"

\* The results of saveTokens that are errors.
SaveErrors == {"err_lock", "err_marshal", "err_write", "err_rename", "err_rename_remove"}

\* os.Rename line 84; lines 85-92 when the temp name no longer exists.
Rename(w) ==
    /\ pc[w] = "rename"
    /\ IF tmpIno # 0
       THEN /\ fileIno' = tmpIno
            /\ tmpIno' = 0
            /\ inode' = IF fileIno # tmpIno THEN Unlinked(inode, fileIno) ELSE inode
            /\ lastSaved' = [lastSaved EXCEPT ![rec[w].ClientID] = rec[w]]
            /\ lastCid' = rec[w].ClientID
            /\ result' = [result EXCEPT ![w] = "ok"]
       ELSE /\ result' = [result EXCEPT ![w] = RenameError(TRUE)]
            /\ UNCHANGED <<fileIno, tmpIno, inode, lastSaved, lastCid>>
    /\ pc' = [pc EXCEPT ![w] = "release"]
    /\ UNCHANGED otherThanStore
    /\ UNCHANGED <<rec, data, fd, lockOwner, lockStale, loaded>>

\* saveTokens lines 75-78: json.MarshalIndent returns an error, which
\* saveTokens returns.
MarshalFail(w) ==
    /\ pc[w] = "read"
    /\ ~Marshalable(rec[w])
    /\ result' = [result EXCEPT ![w] = "err_marshal"]
    /\ pc' = [pc EXCEPT ![w] = "release"]
    /\ UNCHANGED otherThanStore
    /\ UNCHANGED <<rec, data, fd, lockOwner, lockStale, fileIno, tmpIno, inode, loaded,
                   lastSaved, lastCid>>

\* os.WriteFile line 81 returns an error (lines 82-83): the temp file could
\* not be created, or it was created and the bytes could not be written;
\* what was created stays.
WriteFail(w) ==
    /\ pc[w] \in {"write_open", "write_data"}
    /\ result' = [result EXCEPT ![w] = "err_write"]
    /\ data' = [data EXCEPT ![w] = Truncated]
    /\ fd' = [fd EXCEPT ![w] = 0]
    /\ pc' = [pc EXCEPT ![w] = "release"]
    /\ UNCHANGED otherThanStore
    /\ UNCHANGED <<rec, lockOwner, lockStale, fileIno, tmpIno, inode, loaded,
                   lastSaved, lastCid>>

\* os.Rename line 84 returns an error although the temp file is there (the
\* token path cannot be replaced); lines 85-92: os.Remove(tempFile), which
\* removes the temp file or fails too.
RenameFail(w, removed) ==
    /\ pc[w] = "rename"
    /\ tmpIno # 0
    /\ result' = [result EXCEPT ![w] = RenameError(~removed)]
    /\ IF removed
       THEN /\ tmpIno' = 0
            /\ inode' = Unlinked(inode, tmpIno)
       ELSE UNCHANGED <<tmpIno, inode>>
    /\ pc' = [pc EXCEPT ![w] = "release"]
    /\ UNCHANGED otherThanStore
    /\ UNCHANGED <<rec, data, fd, lockOwner, lockStale, fileIno, loaded, lastSaved,
                   lastCid>>

\* A release that is only reached by the successful return.
ReleaseOnSuccessOnly(w) ==
    /\ pc[w] = "release"
    /\ lockOwner' = IF result[w] = "ok" THEN 0 ELSE lockOwner
    /\ lockStale' = IF result[w] = "ok" THEN FALSE ELSE lockStale
    /\ rec' = [rec EXCEPT ![w] = NoRecord]
    /\ pc' = [pc EXCEPT ![w] = "done"]
    /\ UNCHANGED otherThanStore
    /\ UNCHANGED <<result, data, fd, fileIno, tmpIno, inode, loaded, lastSaved,
                   lastCid>>

\* defer lock.release() (line 61): the sidecar is deleted, saveTokens returns.
Release(w) ==
    /\ pc[w] = "release"
    /\ lockOwner' = 0
    /\ lockStale' = FALSE
    /\ rec' = [rec EXCEPT ![w] = NoRecord]
    /\ pc' = [pc EXCEPT ![w] = "done"]
    /\ UNCHANGED otherThanStore
    /\ UNCHANGED <<result, data, fd, fileIno, tmpIno, inode, loaded, lastSaved,
                   lastCid>>

\* The process running saveTokens dies; nothing it created is cleaned up.
Crash(w) ==
    /\ pc[w] \in CriticalPcs \cup {"lock", "remove_stale"}
    /\ pc' = [pc EXCEPT ![w] = "crashed"]
    /\ rec' = [rec EXCEPT ![w] = NoRecord]
    /\ data' = [data EXCEPT ![w] = Truncated]
    /\ fd' = [fd EXCEPT ![w] = 0]
    /\ UNCHANGED otherThanStore
    /\ UNCHANGED <<result, lockOwner, lockStale, fileIno, tmpIno, inode, loaded,
                   lastSaved, lastCid>>

\* loadTokens by a process configured with clientID.
Load(clientID) ==
    /\ loaded' = [kind |-> LoadTokens(clientID).kind, cid |-> clientID,
                  rec |-> LoadTokens(clientID).rec,
                  expect |-> lastSaved[clientID], after |-> lastCid]
    /\ UNCHANGED otherThanStore
    /\ UNCHANGED <<pc, rec, result, data, fd, lockOwner, lockStale, fileIno,
                   tmpIno, inode, lastSaved, lastCid>>

\* No other saveTokens call is in progress.
Alone(w) == \A v \in Writers \ {w} : pc[v] \in {"idle", "done", "crashed"}

(***************************************************************************)
(* PART II: THE CALLBACK LISTENER                                          *)
(***************************************************************************)

\* callbackTimeout = 2 * time.Minute, in minutes.
callbackTimeout == 2

\* make(chan callbackResult, 1)
resultChCap == 1

\* The state performBrowserFlow generated and passes as expectedState.
expectedState == "s1"

\* Requests a browser (or anything else on the loopback interface) can send:
\* the path and the query parameters the handler reads.  A parameter that is
\* absent reads as "" (url.Values.Get).
CallbackQueries ==
    { [path |-> "/callback", error |-> e, desc |-> d, state |-> s, code |-> c] :
        e \in {"", "access_denied"}, d \in {"", "User denied"},
        s \in {"s1", "s2"}, c \in {"", "code-1"} }

Queries ==
    { q \in CallbackQueries : q.error = "" => q.desc = "" }
    \cup { [path |-> "/other", error |-> "", desc |-> "", state |-> "s1", code |-> "code-1"] }

NoQuery == [path |-> "", error |-> "", desc |-> "", state |-> "", code |-> ""]
NoResult == [Code |-> "", Error |-> "", Desc |-> ""]

\* The handler of /callback, lines 44-74: the callbackResult it passes to
\* sendResult and the page it renders (writeCallbackPage's success flag).
DecideNoStateCheck(q) ==
    IF q.error # ""
    THEN [res |-> [Code |-> "", Error |-> q.error, Desc |-> q.desc], page |-> "failure"]
    ELSE IF q.code = ""
    THEN [res |-> [Code |-> "", Error |-> "missing_code", Desc |-> "code parameter missing"],
          page |-> "failure"]
    ELSE [res |-> [Code |-> q.code, Error |-> "", Desc |-> ""], page |-> "success"]

DecideStateFirst(q) ==
    IF q.state # expectedState
    THEN [res |-> [Code |-> "", Error |-> "state_mismatch", Desc |-> "state parameter mismatch"],
          page |-> "failure"]
    ELSE IF q.error # ""
    THEN [res |-> [Code |-> "", Error |-> q.error, Desc |-> q.desc], page |-> "failure"]
    ELSE IF q.code = ""
    THEN [res |-> [Code |-> "", Error |-> "missing_code", Desc |-> "code parameter missing"],
          page |-> "failure"]
    ELSE [res |-> [Code |-> q.code, Error |-> "", Desc |-> ""], page |-> "success"]

Decide(q) ==
    IF q.error # ""
    THEN [res |-> [Code |-> "", Error |-> q.error, Desc |-> q.desc], page |-> "failure"]
    ELSE IF q.state # expectedState
    THEN [res |-> [Code |-> "", Error |-> "state_mismatch", Desc |-> "state parameter mismatch"],
          page |-> "failure"]
    ELSE IF q.code = ""
    THEN [res |-> [Code |-> "", Error |-> "missing_code", Desc |-> "code parameter missing"],
          page |-> "failure"]
    ELSE [res |-> [Code |-> q.code, Error |-> "", Desc |-> ""], page |-> "success"]

\* once.Do(f): whether f runs, given whether the Once has already run.
OnceDoAlways(done) == TRUE

OnceDo(done) == ~done

\* Lines 100-106: the (code, error) pair returned for a received result.  An
\* error is fmt.Errorf text and wraps nothing.
FormatError(r) == IF r.Desc # "" THEN <<r.Error, ": ", r.Desc>> ELSE <<r.Error>>

\* A receiver that takes every result for a code.
ResultOutcomeIgnoresError(r) ==
    [kind |-> "code", code |-> r.Code, msg |-> <<>>, wraps |-> {}]

ResultOutcome(r) ==
    IF r.Error # ""
    THEN [kind |-> "error", code |-> "", msg |-> FormatError(r), wraps |-> {}]
    ELSE [kind |-> "code", code |-> r.Code, msg |-> <<>>, wraps |-> {}]

\* Line 109: fmt.Errorf("%w after %s", ErrCallbackTimeout, callbackTimeout).
TimeoutOutcomeUnwrapped ==
    [kind |-> "error", code |-> "", msg |-> <<"browser authorization timed out", " after ", "2m0s">>,
     wraps |-> {}]

TimeoutOutcome ==
    [kind |-> "error", code |-> "", msg |-> <<"browser authorization timed out", " after ", "2m0s">>,
     wraps |-> {"ErrCallbackTimeout"}]

\* The select case for a done context returns the context's error.
CancelOutcome ==
    [kind |-> "error", code |-> "", msg |-> <<"context canceled">>, wraps |-> {"context.Canceled"}]

\* Line 85: net.Listen failed.
ListenOutcome ==
    [kind |-> "error", code |-> "", msg |-> <<"failed to start callback server">>,
     wraps |-> {"bind"}]

NoOutcome == [kind |-> "none", code |-> "", msg |-> <<>>, wraps |-> {}]

\* A flow that never recognises the timeout sentinel.
IsCallbackTimeoutNever(o) == FALSE

\* errors.Is(err, ErrCallbackTimeout)
IsCallbackTimeout(o) == "ErrCallbackTimeout" \in o.wraps

\* Lines 92-96: the deferred srv.Shutdown runs on every return after the
\* listener was opened and closes it; the value is whether ln is still open.
OpenAfterReturnNoShutdownOnTimeout(case) == case = "timeout"

OpenAfterReturn(case) == FALSE

\* A select that is blocked is woken by the first case that becomes ready.
Wake(case) == IF cpc = "waiting" /\ woken = "none" THEN case ELSE woken

InitCallback ==
    /\ cpc = "init"
    /\ woken = "none"
    /\ listening = FALSE
    /\ elapsed = 0
    /\ ctxCancelled = FALSE
    /\ resultCh = <<>>
    /\ onceDone = FALSE
    /\ sends = 0
    /\ deliveredBy = 0
    /\ sendTime = -1
    /\ hpc = [h \in Requests |-> "idle"]
    /\ req = [h \in Requests |-> NoQuery]
    /\ hres = [h \in Requests |-> NoResult]
    /\ page = [h \in Requests |-> "none"]
    /\ outcome = NoOutcome
    /\ fpc = "callback"
    /\ exchangeCalls = 0
    /\ flowResult = "none"

\* Lines 83 and 88-90: net.Listen succeeds and srv.Serve is started.
Listen ==
    /\ cpc = "init"
    /\ listening' = TRUE
    /\ cpc' = "select"
    /\ UNCHANGED otherThanCallback
    /\ UNCHANGED <<woken, elapsed, ctxCancelled, resultCh, onceDone, sends,
                   deliveredBy, sendTime, hpc, req, hres, page, outcome, fpc,
                   exchangeCalls, flowResult>>

\* Lines 83-86: the port cannot be bound; nothing was started.
ListenFail ==
    /\ cpc = "init"
    /\ outcome' = ListenOutcome
    /\ cpc' = "returned"
    /\ UNCHANGED otherThanCallback
    /\ UNCHANGED <<woken, listening, elapsed, ctxCancelled, resultCh, onceDone,
                   sends, deliveredBy, sendTime, hpc, req, hres, page, fpc,
                   exchangeCalls, flowResult>>

\* Line 98: the select is entered and time.After(callbackTimeout) is armed.
\* A case that is ready already is taken (any one of them); otherwise the
\* goroutine blocks.
EnterSelect ==
    /\ cpc = "select"
    /\ \E c \in {"none", "result", "ctx"} :
          /\ c = "result" => Len(resultCh) > 0
          /\ c = "ctx" => ctxCancelled
          /\ c = "none" => (Len(resultCh) = 0 /\ ~ctxCancelled)
          /\ woken' = c
    /\ elapsed' = 0
    /\ cpc' = "waiting"
    /\ UNCHANGED otherThanCallback
    /\ UNCHANGED <<listening, ctxCancelled, resultCh, onceDone, sends,
                   deliveredBy, sendTime, hpc, req, hres, page, outcome, fpc,
                   exchangeCalls, flowResult>>

\* A minute passes while the select waits; at callbackTimeout the timer fires.
Tick ==
    /\ cpc = "waiting"
    /\ elapsed < callbackTimeout
    /\ elapsed' = elapsed + 1
    /\ woken' = IF elapsed + 1 >= callbackTimeout THEN Wake("timeout") ELSE woken
    /\ UNCHANGED otherThanCallback
    /\ UNCHANGED <<cpc, listening, ctxCancelled, resultCh, onceDone, sends,
                   deliveredBy, sendTime, hpc, req, hres, page, outcome, fpc,
                   exchangeCalls, flowResult>>

\* The caller's context is cancelled.
CtxCancel ==
    /\ ~ctxCancelled
    /\ cpc # "returned"
    /\ ctxCancelled' = TRUE
    /\ woken' = Wake("ctx")
    /\ UNCHANGED otherThanCallback
    /\ UNCHANGED <<cpc, listening, elapsed, resultCh, onceDone, sends,
                   deliveredBy, sendTime, hpc, req, hres, page, outcome, fpc,
                   exchangeCalls, flowResult>>

\* A request is accepted and its handler runs up to the call of sendResult
\* (lines 45-49, 54-57, 65-67, 72).  A path other than /callback is answered
\* by the mux with 404 and reaches no handler.
Handle(h, q) ==
    /\ listening
    /\ hpc[h] = "idle"
    /\ req' = [req EXCEPT ![h] = q]
    /\ IF q.path = "/callback"
       THEN /\ hres' = [hres EXCEPT ![h] = Decide(q).res]
            /\ page' = [page EXCEPT ![h] = Decide(q).page]
            /\ hpc' = [hpc EXCEPT ![h] = "send"]
       ELSE /\ page' = [page EXCEPT ![h] = "404"]
            /\ hpc' = [hpc EXCEPT ![h] = "done"]
            /\ UNCHANGED hres
    /\ UNCHANGED otherThanCallback
    /\ UNCHANGED <<cpc, woken, listening, elapsed, ctxCancelled, resultCh,
                   onceDone, sends, deliveredBy, sendTime, outcome, fpc,
                   exchangeCalls, flowResult>>

\* sendResult, lines 39-41, and the handler's return.  The channel send
\* blocks while the buffer is full.
SendResult(h) ==
    /\ hpc[h] = "send"
    /\ IF OnceDo(onceDone)
       THEN /\ Len(resultCh) < resultChCap
            /\ resultCh' = Append(resultCh, hres[h])
            /\ onceDone' = TRUE
            /\ sends' = sends + 1
            /\ deliveredBy' = h
            /\ sendTime' = elapsed
            /\ woken' = Wake("result")
       ELSE UNCHANGED <<resultCh, onceDone, sends, deliveredBy, sendTime, woken>>
    /\ hpc' = [hpc EXCEPT ![h] = "done"]
    /\ UNCHANGED otherThanCallback
    /\ UNCHANGED <<cpc, listening, elapsed, ctxCancelled, req, hres, page,
                   outcome, fpc, exchangeCalls, flowResult>>

\* Lines 98-110 and the deferred Shutdown: the select case that woke the
\* goroutine is run and startCallbackServer returns.
Return ==
    /\ cpc = "waiting"
    /\ woken # "none"
    /\ IF woken = "result"
       THEN /\ outcome' = ResultOutcome(Head(resultCh))
            /\ resultCh' = Tail(resultCh)
       ELSE /\ outcome' = IF woken = "timeout" THEN TimeoutOutcome ELSE CancelOutcome
            /\ UNCHANGED resultCh
    /\ listening' = OpenAfterReturn(woken)
    /\ cpc' = "returned"
    /\ UNCHANGED otherThanCallback
    /\ UNCHANGED <<woken, elapsed, ctxCancelled, onceDone, sends, deliveredBy,
                   sendTime, hpc, req, hres, page, fpc, exchangeCalls, flowResult>>

\* performBrowserFlow lines 46-58: startCallbackServer returned an error.
FlowError ==
    /\ fpc = "callback"
    /\ cpc = "returned"
    /\ outcome.kind = "error"
    /\ flowResult' = IF IsCallbackTimeout(outcome) THEN "fallback" ELSE "hard_error"
    /\ fpc' = "done"
    /\ UNCHANGED otherThanCallback
    /\ UNCHANGED <<cpc, woken, listening, elapsed, ctxCancelled, resultCh,
                   onceDone, sends, deliveredBy, sendTime, hpc, req, hres, page,
                   outcome, exchangeCalls>>

\* performBrowserFlow lines 59-74: exchangeCode is called with the code; ok
\* is whether the token endpoint answered with a valid token response.
FlowExchange(ok) ==
    /\ fpc = "callback"
    /\ cpc = "returned"
    /\ outcome.kind = "code"
    /\ exchangeCalls' = exchangeCalls + 1
    /\ flowResult' = IF ok THEN "success" ELSE "hard_error"
    /\ fpc' = "done"
    /\ UNCHANGED otherThanCallback
    /\ UNCHANGED <<cpc, woken, listening, elapsed, ctxCancelled, resultCh,
                   onceDone, sends, deliveredBy, sendTime, hpc, req, hres, page,
                   outcome>>

(***************************************************************************)
(* PART III: MAIN, AUTHENTICATE AND THE TOKEN REFRESH                      *)
(***************************************************************************)

\* The clientID of the running process's configuration.
configuredClientID == "a"

\* The instant a wall-clock value names; "T3" is time.Now() plus a positive
\* expires_in, later than every now of the model.
Instant(wall) ==
    CASE wall = "T1" -> 1 [] wall = "T2" -> 2 [] wall = "T3" -> 3 [] OTHER -> 0

\* A comparison that also accepts the instant of expiry itself.
BeforeOrAt(t, expiresAt) == t <= Instant(expiresAt.wall)

\* time.Now().Before(existing.ExpiresAt), main line 179.
Before(t, expiresAt) == t < Instant(expiresAt.wall)

\* A validation that only asks for a non-empty access token.
validateTokenResponseNonEmptyOnly(accessToken, tokenType, expiresIn) ==
    IF accessToken = "" THEN "access_token is empty" ELSE ""

\* validateTokenResponse, tokens.go lines 98-112: "" when the response is
\* accepted, the reason otherwise.
validateTokenResponse(accessToken, tokenType, expiresIn) ==
    IF accessToken = "" THEN "access_token is empty"
    ELSE IF Len(accessToken) < 10 THEN "access_token is too short"
    ELSE IF expiresIn <= 0 THEN "expires_in must be positive"
    ELSE IF tokenType # "" /\ tokenType # "Bearer" THEN "unexpected token_type"
    ELSE ""

\* What the token endpoint can answer to a refresh request: a transport
\* error, or a status with a body (json = FALSE: the body is no JSON object).
\* A field missing from the body reads as its zero value.
TokenBodies ==
    { [error |-> "", access_token |-> at, refresh_token |-> rt, token_type |-> tt,
       expires_in |-> ei] :
        at \in {"", "short", "access-token-3"}, rt \in {"", "refresh-2"},
        tt \in {"", "Bearer", "mac"}, ei \in {0, 3600} }

ErrorBodies ==
    { [error |-> e, access_token |-> "", refresh_token |-> "", token_type |-> "",
       expires_in |-> 0] :
        e \in {"", "invalid_grant", "invalid_token", "server_error"} }

RefreshResponses ==
    { [transport |-> FALSE, status |-> 200, json |-> TRUE, body |-> b] : b \in TokenBodies }
    \cup { [transport |-> FALSE, status |-> st, json |-> TRUE, body |-> b] :
             st \in {200, 400}, b \in ErrorBodies }
    \cup { [transport |-> FALSE, status |-> st, json |-> FALSE, body |-> b] :
             st \in {200, 400}, b \in { x \in ErrorBodies : x.error = "" } }
    \cup { [transport |-> TRUE, status |-> 0, json |-> FALSE, body |-> b] :
             b \in { x \in ErrorBodies : x.error = "" } }

\* refreshAccessToken lines 348-352: the refresh token of the new record.
NewRefreshTokenDropOld(respToken, refreshToken) == respToken

NewRefreshToken(respToken, refreshToken) ==
    IF respToken = "" THEN refreshToken ELSE respToken

\* refreshAccessToken lines 319-328: the error for a status other than 200.
RefreshStatusErrorNoSentinel(resp) ==
    IF resp.json THEN "oauth_error" ELSE "bad_status"

RefreshStatusError(resp) ==
    IF resp.json
    THEN IF resp.body.error = "invalid_grant" \/ resp.body.error = "invalid_token"
         THEN "ErrRefreshTokenExpired"
         ELSE "oauth_error"
    ELSE "bad_status"

\* time.Now().Add(time.Duration(expiresIn) * time.Second): "T3" is later than
\* every now of the model, "T0" is now or earlier.
ExpiryOf(expiresIn) ==
    [wall |-> IF expiresIn > 0 THEN "T3" ELSE "T0", mono |-> TRUE]

\* refreshAccessToken lines 285-360, up to the call of saveTokens: the error
\* it returns ("" for none) and the record it has built.
RefreshOutcome(resp, refreshToken) ==
    IF resp.transport THEN [err |-> "request_failed", storage |-> NoRecord]
    ELSE IF resp.status # 200 THEN [err |-> RefreshStatusError(resp), storage |-> NoRecord]
    ELSE IF ~resp.json THEN [err |-> "parse_failed", storage |-> NoRecord]
    ELSE IF validateTokenResponse(resp.body.access_token, resp.body.token_type,
                                  resp.body.expires_in) # ""
    THEN [err |-> "invalid_token_response", storage |-> NoRecord]
    ELSE [err |-> "",
          storage |-> [AccessToken  |-> resp.body.access_token,
                       RefreshToken |-> NewRefreshToken(resp.body.refresh_token, refreshToken),
                       TokenType    |-> resp.body.token_type,
                       ExpiresAt    |-> ExpiryOf(resp.body.expires_in),
                       ClientID     |-> configuredClientID,
                       Flow         |-> ""]]

\* checkBrowserAvailability, detect.go lines 27-59, over the environment it
\* inspects: the SSH variables, the display variables, the host OS and
\* whether 127.0.0.1:<port> can be bound.
Environments ==
    [SSH_TTY : BOOLEAN, SSH_CLIENT : BOOLEAN, SSH_CONNECTION : BOOLEAN,
     DISPLAY : BOOLEAN, WAYLAND_DISPLAY : BOOLEAN, linux : BOOLEAN,
     portFree : BOOLEAN]

checkBrowserAvailability(env) ==
    LET inSSH == env.SSH_TTY \/ env.SSH_CLIENT \/ env.SSH_CONNECTION
        hasDisplay == env.DISPLAY \/ env.WAYLAND_DISPLAY
    IN  IF inSSH /\ ~hasDisplay THEN FALSE
        ELSE IF env.linux /\ ~hasDisplay THEN FALSE
        ELSE env.portFree

\* The saveTokens calls of this process and the one redirect its browser
\* tab sends.
MainWriter == 1
TheRedirect == 1

\* Token files a start of the program can find: none, an empty file, or a
\* mapping with one record, of this client or of another one.
CachedFiles ==
    {Truncated} \cup
    { MarshalMap(PutEntry(EmptyMap, r)) : r \in { x \in Records : x.ClientID # "" } }

\* The records the flows hand back: exchangeCode's with Flow stamped by
\* performBrowserFlow (line 66), and the device flow's.
BrowserRecord ==
    [AccessToken |-> "access-token-4", RefreshToken |-> "refresh-4", TokenType |-> "Bearer",
     ExpiresAt |-> [wall |-> "T3", mono |-> TRUE], ClientID |-> configuredClientID,
     Flow |-> "browser"]

DeviceRecord ==
    [AccessToken |-> "access-token-5", RefreshToken |-> "refresh-5", TokenType |-> "Bearer",
     ExpiresAt |-> [wall |-> "T3", mono |-> TRUE], ClientID |-> configuredClientID,
     Flow |-> "device"]

NoError == <<>>

\* No refresh request was answered yet.
NoResponse ==
    [transport |-> FALSE, status |-> 0, json |-> FALSE,
     body |-> [error |-> "", access_token |-> "", refresh_token |-> "", token_type |-> "",
               expires_in |-> 0]]

\* authenticate lines 257-262: what it does first.
FirstStepIgnoreFlag(force) == "probe"

FirstStep(force) == IF force THEN "device" ELSE "probe"

\* authenticate lines 269-278: what it does with performBrowserFlow's result
\* (storage, ok, err).
AfterBrowserAlwaysFallBack(fr) ==
    IF fr = "success" THEN "return_storage" ELSE "device"

AfterBrowser(fr) ==
    CASE fr = "hard_error" -> "return_error"
      [] fr = "fallback"   -> "device"
      [] OTHER             -> "return_storage"

\* performBrowserFlow lines 24, 29, 57 and 64: the error it returns.
BrowserFlowError ==
    IF cpc = "idle"
    THEN <<"failed to generate state or PKCE">>
    ELSE IF outcome.kind = "error"
    THEN <<"authorization failed: ">> \o outcome.msg
    ELSE <<"token exchange failed">>

\* The main variables of a model in which main does not run.
InitMainIdle ==
    /\ mpc = "idle"
    /\ now = 1
    /\ forceDevice = FALSE
    /\ existing = NoRecord
    /\ newStorage = NoRecord
    /\ storage = NoRecord
    /\ ran = <<>>
    /\ refreshResp = NoResponse
    /\ refreshErr = ""
    /\ authErr = NoError

\* The program starts: flags parsed, a token file (or none) on disk, and
\* possibly another process holding the .lock sidecar.
InitMain ==
    /\ mpc = "load"
    /\ now \in 1..2
    /\ forceDevice \in BOOLEAN
    /\ existing = NoRecord
    /\ newStorage = NoRecord
    /\ storage = NoRecord
    /\ ran = <<>>
    /\ refreshResp = NoResponse
    /\ refreshErr = ""
    /\ authErr = NoError
    /\ pc = [w \in Writers |-> "idle"]
    /\ rec = [w \in Writers |-> NoRecord]
    /\ result = [w \in Writers |-> "none"]
    /\ data = [w \in Writers |-> Truncated]
    /\ fd = [w \in Writers |-> 0]
    /\ lockOwner \in {0} \cup (Writers \ {MainWriter})
    /\ lockStale = FALSE
    /\ fileIno \in {0, PreexistingInode}
    /\ tmpIno = 0
    /\ \E f \in CachedFiles :
          inode = [i \in 1..(NumWriters + 1) |->
                     IF i = PreexistingInode /\ fileIno # 0 THEN f ELSE Truncated]
    /\ loaded = NoLoad
    /\ lastSaved = [c \in ClientIDs |-> NoRecord]
    /\ lastCid = ""
    /\ cpc = "idle"
    /\ woken = "none"
    /\ listening = FALSE
    /\ elapsed = 0
    /\ ctxCancelled = FALSE
    /\ resultCh = <<>>
    /\ onceDone = FALSE
    /\ sends = 0
    /\ deliveredBy = 0
    /\ sendTime = -1
    /\ hpc = [h \in Requests |-> "idle"]
    /\ req = [h \in Requests |-> NoQuery]
    /\ hres = [h \in Requests |-> NoResult]
    /\ page = [h \in Requests |-> "none"]
    /\ outcome = NoOutcome
    /\ fpc = "idle"
    /\ exchangeCalls = 0
    /\ flowResult = "none"

\* main lines 176-195: loadTokens and the expiry test.
MainLoad ==
    /\ mpc = "load"
    /\ LET l == LoadTokens(configuredClientID) IN
       IF l.kind = "ok"
       THEN /\ existing' = l.rec
            /\ IF Before(now, l.rec.ExpiresAt)
               THEN storage' = l.rec /\ mpc' = "verify"
               ELSE mpc' = "refresh" /\ UNCHANGED storage
       ELSE /\ mpc' = "auth"
            /\ UNCHANGED <<existing, storage>>
    /\ UNCHANGED otherThanMain
    /\ UNCHANGED <<now, forceDevice, newStorage, ran, refreshResp, refreshErr, authErr>>

\* main line 184 and refreshAccessToken lines 285-362: the request is sent,
\* the response handled, and on success saveTokens is called with the new
\* record; on an error main goes on to authenticate (lines 185-187, 198).
RefreshRequest(resp) ==
    /\ mpc = "refresh"
    /\ pc[MainWriter] = "idle"
    /\ ran' = Append(ran, "refresh")
    /\ refreshResp' = resp
    /\ LET o == RefreshOutcome(resp, existing.RefreshToken) IN
       IF o.err # ""
       THEN /\ refreshErr' = o.err
            /\ mpc' = "auth"
            /\ UNCHANGED <<newStorage, rec, pc>>
       ELSE /\ newStorage' = o.storage
            /\ rec' = [rec EXCEPT ![MainWriter] = DefaultClientID(o.storage, configuredClientID)]
            /\ pc' = [pc EXCEPT ![MainWriter] = "lock"]
            /\ mpc' = "refresh_save"
            /\ UNCHANGED refreshErr
    /\ UNCHANGED <<cbVars, pollVars, probeVars, opVars>>
    /\ UNCHANGED <<result, data, fd, lockOwner, lockStale, fileIno, tmpIno, inode,
                   loaded, lastSaved, lastCid>>
    /\ UNCHANGED <<now, forceDevice, existing, storage, authErr>>

\* refreshAccessToken lines 362-365 and main lines 188-190: saveTokens has
\* returned (a failure is only printed) and the new record is main's storage.
RefreshReturn ==
    /\ mpc = "refresh_save"
    /\ pc[MainWriter] = "done"
    /\ storage' = newStorage
    /\ mpc' = "verify"
    /\ UNCHANGED otherThanMain
    /\ UNCHANGED <<now, forceDevice, existing, newStorage, ran, refreshResp, refreshErr, authErr>>

\* main line 199 and authenticate lines 257-260.
AuthStart ==
    /\ mpc = "auth"
    /\ mpc' = FirstStep(forceDevice)
    /\ ran' = Append(ran, "authenticate")
    /\ UNCHANGED otherThanMain
    /\ UNCHANGED <<now, forceDevice, existing, newStorage, storage, refreshResp, refreshErr, authErr>>

\* authenticate lines 262-268: the probe, in the environment env.
Probe(env) ==
    /\ mpc = "probe"
    /\ ran' = Append(ran, IF checkBrowserAvailability(env)
                           THEN "probe_available" ELSE "probe_unavailable")
    /\ mpc' = IF checkBrowserAvailability(env) THEN "browser" ELSE "device"
    /\ UNCHANGED otherThanMain
    /\ UNCHANGED <<now, forceDevice, existing, newStorage, storage, refreshResp, refreshErr, authErr>>

\* How performBrowserFlow can begin.
BrowserStarts == {"setup_failed", "launch_failed", "opened"}

\* authenticate line 269 and performBrowserFlow lines 21-46: generateState
\* or GeneratePKCE fails (an error is returned), or openBrowser fails
\* (fall-back is reported), or the browser opens and startCallbackServer is
\* called.
BrowserStart(start) ==
    /\ mpc = "browser"
    /\ ran' = ran \o (CASE start = "setup_failed"  -> <<"browser", "setup_failed">>
                       [] start = "launch_failed" -> <<"browser", "open_browser_failed">>
                       [] OTHER                   -> <<"browser">>)
    /\ mpc' = "browser_wait"
    /\ CASE start = "setup_failed" ->
              /\ fpc' = "done"
              /\ flowResult' = "hard_error"
              /\ UNCHANGED cpc
         [] start = "launch_failed" ->
              /\ fpc' = "done"
              /\ flowResult' = "fallback"
              /\ UNCHANGED cpc
         [] OTHER ->
              /\ fpc' = "callback"
              /\ cpc' = "init"
              /\ UNCHANGED flowResult
    /\ UNCHANGED <<storeVars, pollVars, probeVars, opVars>>
    /\ UNCHANGED <<woken, listening, elapsed, ctxCancelled, resultCh, onceDone, sends,
                   deliveredBy, sendTime, hpc, req, hres, page, outcome, exchangeCalls>>
    /\ UNCHANGED <<now, forceDevice, existing, newStorage, storage, refreshResp, refreshErr, authErr>>

\* authenticate lines 269-278 (and main line 199): performBrowserFlow has
\* returned.
AuthAfterBrowser ==
    /\ mpc = "browser_wait"
    /\ fpc = "done"
    /\ CASE AfterBrowser(flowResult) = "return_error" ->
              /\ authErr' = BrowserFlowError
              /\ mpc' = "auth_done"
              /\ UNCHANGED storage
         [] AfterBrowser(flowResult) = "device" ->
              /\ mpc' = "device"
              /\ UNCHANGED <<authErr, storage>>
         [] OTHER ->
              /\ storage' = BrowserRecord
              /\ mpc' = "auth_done"
              /\ UNCHANGED authErr
    /\ UNCHANGED otherThanMain
    /\ UNCHANGED <<now, forceDevice, existing, newStorage, ran, refreshResp, refreshErr>>

\* performDeviceFlow, called at authenticate lines 259, 265 or 276, and its
\* return through authenticate to main line 199.
DeviceFlow(ok) ==
    /\ mpc = "device"
    /\ ran' = Append(ran, "device")
    /\ IF ok
       THEN storage' = DeviceRecord /\ UNCHANGED authErr
       ELSE authErr' = <<"device flow failed">> /\ UNCHANGED storage
    /\ mpc' = "auth_done"
    /\ UNCHANGED otherThanMain
    /\ UNCHANGED <<now, forceDevice, existing, newStorage, refreshResp, refreshErr>>

Occurrences(seq, e) == Cardinality({ i \in DOMAIN seq : seq[i] = e })

\* main is past line 233: it re-authenticates or has done so.
Reauthenticating == Occurrences(ran, "reauthenticate") > 0

\* main lines 199-204 and 234-239: what follows authenticate's return.
AfterAuthenticate(err, reauthenticated) ==
    IF err # NoError THEN "exit1"
    ELSE IF reauthenticated THEN "api" ELSE "verify"

\* main lines 199-204 and 234-239: os.Exit(1) when authenticate returned an
\* error; else main verifies the token or, after a re-authentication, calls
\* the API again.
MainAfterAuth ==
    /\ mpc = "auth_done"
    /\ mpc' = AfterAuthenticate(authErr, Reauthenticating)
    /\ UNCHANGED otherThanMain
    /\ UNCHANGED <<now, forceDevice, existing, newStorage, storage, ran, refreshResp,
                   refreshErr, authErr>>

\* main lines 206-227: the token is shown and verified; a failed
\* verification is only printed.
MainVerify(ok) ==
    /\ mpc = "verify"
    /\ ran' = Append(ran, IF ok THEN "verify" ELSE "verify_failed")
    /\ mpc' = "api"
    /\ UNCHANGED otherThanMain
    /\ UNCHANGED <<now, forceDevice, existing, newStorage, storage, refreshResp, refreshErr, authErr>>

\* ---- main lines 231-247: the API call and the one re-authentication ----

\* How the server answers GET /oauth/tokeninfo: a status, or no answer at
\* all.
ApiAnswers == {"200", "401", "500", "transport"}

\* The makeAPICallWithAutoRefresh calls main has made so far (lines 231 and
\* 239), and the saveTokens call a refresh inside the latest of them uses.
ApiCalls == Occurrences(ran, "api_call")
ApiWriter == ApiCalls

\* makeAPICallWithAutoRefresh lines 413-419 and 447-464: the position main
\* is at once the request, or the retried request, was answered.
AfterRequest(answer, retried) ==
    CASE answer = "transport"           -> "api_error"
      [] answer = "401" /\ ~retried     -> "api_refresh"
      [] answer = "200"                 -> "api_nil"
      [] OTHER                          -> "api_error"

\* makeAPICallWithAutoRefresh lines 424-428: the error of refreshAccessToken;
\* ErrRefreshTokenExpired is handed on as it is, any other is wrapped.
AfterRefreshError(err) ==
    IF err = "ErrRefreshTokenExpired" THEN "api_expired" ELSE "api_error"

\* main lines 231-247: what main does with the value returned by the call
\* (nil, ErrRefreshTokenExpired, another error), at line 231 (first) and at
\* line 239 (after the re-authentication).
AfterAPICallAlwaysReauthenticate(returned, reauthenticated) ==
    CASE returned = "api_nil"     -> "exit0"
      [] returned = "api_expired" -> "reauthenticate"
      [] OTHER                    -> IF reauthenticated THEN "exit1" ELSE "exit0"

AfterAPICall(returned, reauthenticated) ==
    CASE returned = "api_nil"                          -> "exit0"
      [] reauthenticated                               -> "exit1"
      [] returned = "api_expired"                      -> "reauthenticate"
      [] OTHER                                         -> "exit0"

\* makeAPICallWithAutoRefresh lines 406-419: the request is sent and
\* answered.
ApiRequest(answer) ==
    /\ mpc = "api"
    /\ ApiCalls < NumWriters      \* each call has a saveTokens call of its own
    /\ ran' = Append(ran, "api_call")
    /\ mpc' = AfterRequest(answer, FALSE)
    /\ UNCHANGED otherThanMain
    /\ UNCHANGED <<now, forceDevice, existing, newStorage, storage, refreshResp, refreshErr, authErr>>

\* makeAPICallWithAutoRefresh lines 419-428 and refreshAccessToken lines
\* 285-362: after a 401 the token is refreshed; on success saveTokens is
\* called with the new record.
ApiRefresh(resp) ==
    /\ mpc = "api_refresh"
    /\ ApiWriter \in Writers
    /\ pc[ApiWriter] = "idle"
    /\ ran' = Append(ran, "api_refresh")
    /\ refreshResp' = resp
    /\ LET o == RefreshOutcome(resp, storage.RefreshToken) IN
       IF o.err # ""
       THEN /\ refreshErr' = o.err
            /\ mpc' = AfterRefreshError(o.err)
            /\ UNCHANGED <<newStorage, rec, pc>>
       ELSE /\ newStorage' = o.storage
            /\ rec' = [rec EXCEPT ![ApiWriter] = DefaultClientID(o.storage, configuredClientID)]
            /\ pc' = [pc EXCEPT ![ApiWriter] = "lock"]
            /\ mpc' = "api_save"
            /\ UNCHANGED refreshErr
    /\ UNCHANGED <<cbVars, pollVars, probeVars, opVars>>
    /\ UNCHANGED <<result, data, fd, lockOwner, lockStale, fileIno, tmpIno, inode,
                   loaded, lastSaved, lastCid>>
    /\ UNCHANGED <<now, forceDevice, existing, storage, authErr>>

\* refreshAccessToken lines 362-365 and makeAPICallWithAutoRefresh lines
\* 430-432: saveTokens has returned and the new tokens are copied into
\* main's storage.
ApiRefreshReturn ==
    /\ mpc = "api_save"
    /\ pc[ApiWriter] = "done"
    /\ storage' = [storage EXCEPT !.AccessToken = newStorage.AccessToken,
                                  !.RefreshToken = newStorage.RefreshToken,
                                  !.ExpiresAt = newStorage.ExpiresAt]
    /\ mpc' = "api_retry"
    /\ UNCHANGED otherThanMain
    /\ UNCHANGED <<now, forceDevice, existing, newStorage, ran, refreshResp, refreshErr, authErr>>

\* makeAPICallWithAutoRefresh lines 434-464: the request is sent again with
\* the new access token.
ApiRetry(answer) ==
    /\ mpc = "api_retry"
    /\ ran' = Append(ran, "api_retry")
    /\ mpc' = AfterRequest(answer, TRUE)
    /\ UNCHANGED otherThanMain
    /\ UNCHANGED <<now, forceDevice, existing, newStorage, storage, refreshResp, refreshErr, authErr>>

\* main lines 231-247: makeAPICallWithAutoRefresh has returned.
MainAfterAPICall ==
    /\ mpc \in {"api_nil", "api_expired", "api_error"}
    /\ LET next == AfterAPICall(mpc, Reauthenticating) IN
       IF next = "reauthenticate"
       THEN /\ ran' = ran \o <<mpc, "reauthenticate">>
            /\ mpc' = "auth"
       ELSE /\ ran' = Append(ran, mpc)
            /\ mpc' = next
    /\ UNCHANGED otherThanMain
    /\ UNCHANGED <<now, forceDevice, existing, newStorage, storage, refreshResp, refreshErr, authErr>>

\* main is at line 231 with the tokens the start-up phase obtained; they
\* are in the token file, and no browser flow has run in this phase.
InitApi ==
    /\ mpc = "api"
    /\ now = 1
    /\ forceDevice \in BOOLEAN
    /\ existing = NoRecord
    /\ newStorage = NoRecord
    /\ storage \in {BrowserRecord, DeviceRecord}
    /\ ran = <<>>
    /\ refreshResp = NoResponse
    /\ refreshErr = ""
    /\ authErr = NoError
    /\ pc = [w \in Writers |-> "idle"]
    /\ rec = [w \in Writers |-> NoRecord]
    /\ result = [w \in Writers |-> "none"]
    /\ data = [w \in Writers |-> Truncated]
    /\ fd = [w \in Writers |-> 0]
    /\ lockOwner = 0
    /\ lockStale = FALSE
    /\ fileIno = PreexistingInode
    /\ tmpIno = 0
    /\ inode = [i \in 1..(NumWriters + 1) |->
                  IF i = PreexistingInode
                  THEN MarshalMap(PutEntry(EmptyMap, storage)) ELSE Truncated]
    /\ loaded = NoLoad
    /\ lastSaved = [c \in ClientIDs |-> NoRecord]
    /\ lastCid = ""
    /\ cpc = "idle"
    /\ woken = "none"
    /\ listening = FALSE
    /\ elapsed = 0
    /\ ctxCancelled = FALSE
    /\ resultCh = <<>>
    /\ onceDone = FALSE
    /\ sends = 0
    /\ deliveredBy = 0
    /\ sendTime = -1
    /\ hpc = [h \in Requests |-> "idle"]
    /\ req = [h \in Requests |-> NoQuery]
    /\ hres = [h \in Requests |-> NoResult]
    /\ page = [h \in Requests |-> "none"]
    /\ outcome = NoOutcome
    /\ fpc = "idle"
    /\ exchangeCalls = 0
    /\ flowResult = "none"

(***************************************************************************)
(* PART IV: THE DEVICE-FLOW POLLER                                         *)
(*                                                                         *)
(* pollForTokenWithProgress is called by the tests (src/polling_test.go)   *)
(* but its code is not among the sources; it is modelled from the polling  *)
(* state machine of spec.md section 4.6.                                   *)
(***************************************************************************)

\* Largest number of slow_down responses of one run of the model.
MaxSlowDowns == 6

\* Periods are counted in units of 1/PollUnit seconds, fine enough for
\* MaxSlowDowns multiplications by 1.5 to be exact.
RECURSIVE Pow(_, _)
Pow(b, n) == IF n = 0 THEN 1 ELSE b * Pow(b, n - 1)

PollUnit == Pow(2, MaxSlowDowns)

\* The default poll interval and the slow_down ceiling, in seconds.
defaultPollInterval == 5
maxPollInterval == 60

\* The interval field of the device-code response (0: absent).
ServerIntervals == {0, 1, 2, 5, 10, 30}

BasePeriod(interval) == IF interval = 0 THEN defaultPollInterval ELSE interval

\* slow_down: multiply the current period by 1.5, clamp to the ceiling.
SlowDownPeriodNoClamp(p) == (p * 3) \div 2

SlowDownPeriod(p) ==
    IF (p * 3) \div 2 > maxPollInterval * PollUnit
    THEN maxPollInterval * PollUnit
    ELSE (p * 3) \div 2

\* authorization_pending: continue at the current cadence.
PendingPeriodReset(p) == pollBase * PollUnit

PendingPeriod(p) == p

\* The device code's lifetime and the number of progress dots followed, in
\* steps of the model's clock, and the number of polls followed.
DeviceExpiry == 3
MaxUITicks == 2
MaxPolls == MaxSlowDowns + 2

\* What the token endpoint can answer to a poll, and the access tokens a
\* 200 answer can carry.
PollResponses ==
    {"authorization_pending", "slow_down", "token", "expired_token", "access_denied",
     "invalid_client", "transport"}
PollTokens == {"test-access-token", "short"}

\* A 200 answer is a success when its token passes validateTokenResponse.
ValidToken(tok) == validateTokenResponse(tok, "Bearer", 3600) = ""

\* The response table of section 4.6: what the run ends with ("": it goes on).
PollVerdictKeepsPolling(r, tok) ==
    IF r = "token" /\ ValidToken(tok) THEN "token" ELSE ""

PollVerdict(r, tok) ==
    CASE r = "authorization_pending" -> ""
      [] r = "slow_down"             -> ""
      [] r = "token"                 -> IF ValidToken(tok) THEN "token"
                                        ELSE "invalid token response"
      [] r = "expired_token"         -> "device code expired, please restart the flow"
      [] r = "access_denied"         -> "user denied authorization"
      [] r = "transport"             -> "token exchange failed"
      [] OTHER                       -> "oauth error"

\* The token the poller hands back for a response.
ReturnedTokenNone(r, tok) == ""

ReturnedToken(r, tok) == IF PollVerdict(r, tok) = "token" THEN tok ELSE ""

\* The error of a done context.
CtxErr(c) == IF c = "canceled" THEN "context.Canceled" ELSE "context.DeadlineExceeded"

\* The error chain of a run ended by the context.
CancelWrapsNothing(c) == {}

CancelWraps(c) == {CtxErr(c)}

\* A poll is sent only from the wait of the select loop.
CanPollWhileInFlight(p) == p \in {"wait", "inflight"}

CanPoll(p) == p = "wait"

\* The device code has expired.
ExpiryNever(t) == FALSE

ExpiryReached(t) == t >= DeviceExpiry

\* The poller variables of a model in which no device flow runs.
InitPollIdle ==
    /\ ppc = "idle"
    /\ pollBase = 0
    /\ pollInterval = 0
    /\ slowDowns = 0
    /\ lastResponse = ""
    /\ pollResult = ""
    /\ pollCtx = "live"
    /\ pollElapsed = 0
    /\ pollsSent = 0
    /\ continued = 0
    /\ inflight = 0
    /\ uiTicks = 0
    /\ answerToken = ""
    /\ pollToken = ""
    /\ pollErrWraps = {}

\* The device-code response has arrived; the poller is about to start.
InitPoll ==
    /\ ppc = "start"
    /\ pollBase = 0
    /\ pollInterval = 0
    /\ slowDowns = 0
    /\ lastResponse = ""
    /\ pollResult = ""
    /\ pollCtx = "live"
    /\ pollElapsed = 0
    /\ pollsSent = 0
    /\ continued = 0
    /\ inflight = 0
    /\ uiTicks = 0
    /\ answerToken = ""
    /\ pollToken = ""
    /\ pollErrWraps = {}

\* The poll cadence is set up from the server's interval.
PollStart(interval) ==
    /\ ppc = "start"
    /\ pollBase' = BasePeriod(interval)
    /\ pollInterval' = BasePeriod(interval) * PollUnit
    /\ ppc' = "wait"
    /\ UNCHANGED otherThanPoll
    /\ UNCHANGED <<slowDowns, lastResponse, pollResult, pollCtx, pollElapsed, pollsSent,
                   continued, inflight, uiTicks, answerToken, pollToken, pollErrWraps>>

\* The caller cancels the context, or its deadline passes, during the run.
PollCtxDone(kind) ==
    /\ ppc \in {"start", "wait", "inflight"}
    /\ pollCtx = "live"
    /\ pollCtx' = kind
    /\ UNCHANGED otherThanPoll
    /\ UNCHANGED <<ppc, pollBase, pollInterval, slowDowns, lastResponse, pollResult,
                   pollElapsed, pollsSent, continued, inflight, uiTicks, answerToken,
                   pollToken, pollErrWraps>>

\* Time passes, up to the device code's expiry.
PollTimePasses ==
    /\ ppc \in {"wait", "inflight"}
    /\ pollElapsed < DeviceExpiry
    /\ pollElapsed' = pollElapsed + 1
    /\ UNCHANGED otherThanPoll
    /\ UNCHANGED <<ppc, pollBase, pollInterval, slowDowns, lastResponse, pollResult,
                   pollCtx, pollsSent, continued, inflight, uiTicks, answerToken,
                   pollToken, pollErrWraps>>

\* A UI tick: a progress dot is printed; the loop goes back to its wait.
UITick ==
    /\ ppc = "wait"
    /\ pollCtx = "live"
    /\ uiTicks < MaxUITicks
    /\ uiTicks' = uiTicks + 1
    /\ UNCHANGED otherThanPoll
    /\ UNCHANGED <<ppc, pollBase, pollInterval, slowDowns, lastResponse, pollResult,
                   pollCtx, pollElapsed, pollsSent, continued, inflight, answerToken,
                   pollToken, pollErrWraps>>

\* A poll tick: the period has passed and the token request is sent.
PollTick ==
    /\ CanPoll(ppc)
    /\ pollCtx = "live"
    /\ ~ExpiryReached(pollElapsed)
    /\ pollsSent < MaxPolls
    /\ ppc' = "inflight"
    /\ pollsSent' = pollsSent + 1
    /\ inflight' = inflight + 1
    /\ UNCHANGED otherThanPoll
    /\ UNCHANGED <<pollBase, pollInterval, slowDowns, lastResponse, pollResult, pollCtx,
                   pollElapsed, continued, uiTicks, answerToken, pollToken, pollErrWraps>>

\* The response to the poll in flight is mapped by the table of section 4.6.
PollResponse(r, tok) ==
    /\ ppc = "inflight"
    /\ pollCtx = "live"
    /\ r = "slow_down" => slowDowns < MaxSlowDowns
    /\ lastResponse' = r
    /\ answerToken' = IF r = "token" THEN tok ELSE ""
    /\ pollInterval' = CASE r = "slow_down" -> SlowDownPeriod(pollInterval)
                         [] r = "authorization_pending" -> PendingPeriod(pollInterval)
                         [] OTHER -> pollInterval
    /\ slowDowns' = IF r = "slow_down" THEN slowDowns + 1 ELSE slowDowns
    /\ continued' = IF PollVerdict(r, tok) = "" THEN continued + 1 ELSE continued
    /\ inflight' = inflight - 1
    /\ pollResult' = PollVerdict(r, tok)
    /\ pollToken' = ReturnedToken(r, tok)
    /\ ppc' = IF PollVerdict(r, tok) = "" THEN "wait" ELSE "done"
    /\ UNCHANGED otherThanPoll
    /\ UNCHANGED <<pollBase, pollCtx, pollElapsed, pollsSent, uiTicks, pollErrWraps>>

\* The context is done: the wait returns the context's error, a request in
\* flight is aborted and its error, which wraps the context's, is returned.
PollCancelled ==
    /\ ppc \in {"wait", "inflight"}
    /\ pollCtx # "live"
    /\ ppc' = "done"
    /\ pollResult' = IF ppc = "inflight" THEN "token exchange failed" ELSE CtxErr(pollCtx)
    /\ pollErrWraps' = CancelWraps(pollCtx)
    /\ inflight' = 0
    /\ UNCHANGED otherThanPoll
    /\ UNCHANGED <<pollBase, pollInterval, slowDowns, lastResponse, pollCtx, pollElapsed,
                   pollsSent, continued, uiTicks, answerToken, pollToken>>

\* The device code's expiry has passed while the loop waits: the run ends.
PollExpire ==
    /\ ppc = "wait"
    /\ pollCtx = "live"
    /\ ExpiryReached(pollElapsed)
    /\ ppc' = "done"
    /\ pollResult' = "device code expired, please restart the flow"
    /\ UNCHANGED otherThanPoll
    /\ UNCHANGED <<pollBase, pollInterval, slowDowns, lastResponse, pollCtx, pollElapsed,
                   pollsSent, continued, inflight, uiTicks, answerToken, pollToken,
                   pollErrWraps>>

(***************************************************************************)
(* PART V: THE ENVIRONMENT PROBE, STEP BY STEP                             *)
(*                                                                         *)
(* checkBrowserAvailability (detect.go lines 27-59) with its reason and    *)
(* its listener, run in an environment and run again after the             *)
(* environment was changed.                                                *)
(***************************************************************************)

NoAvailability == [Available |-> FALSE, Reason |-> "not run"]
NoEnvironment == [e \in {} |-> FALSE]

\* detect.go lines 31-44: the reason stage 1 returns unavailable with, ""
\* when it passes.
EnvStageLinuxFirst(env) ==
    LET inSSH == env.SSH_TTY \/ env.SSH_CLIENT \/ env.SSH_CONNECTION
        hasDisplay == env.DISPLAY \/ env.WAYLAND_DISPLAY
    IN  IF env.linux /\ ~hasDisplay
        THEN "no display server (DISPLAY/WAYLAND_DISPLAY not set)"
        ELSE IF inSSH /\ ~hasDisplay THEN "SSH session without display forwarding"
        ELSE ""

EnvStageDisplayBlocks(env) ==
    LET inSSH == env.SSH_TTY \/ env.SSH_CLIENT \/ env.SSH_CONNECTION
        hasDisplay == env.DISPLAY \/ env.WAYLAND_DISPLAY
    IN  IF inSSH /\ hasDisplay THEN "SSH session without display forwarding" ELSE ""

EnvStage(env) ==
    LET inSSH == env.SSH_TTY \/ env.SSH_CLIENT \/ env.SSH_CONNECTION
        hasDisplay == env.DISPLAY \/ env.WAYLAND_DISPLAY
    IN  IF inSSH /\ ~hasDisplay THEN "SSH session without display forwarding"
        ELSE IF env.linux /\ ~hasDisplay
        THEN "no display server (DISPLAY/WAYLAND_DISPLAY not set)"
        ELSE ""

\* The changes of the environment between two runs of the probe.
EnvChanges == {"clear_ssh", "set_display", "clear_ssh_set_display", "occupy_port"}

ChangeEnv(c, env) ==
    CASE c = "clear_ssh" ->
           [env EXCEPT !.SSH_TTY = FALSE, !.SSH_CLIENT = FALSE, !.SSH_CONNECTION = FALSE]
      [] c = "set_display" -> [env EXCEPT !.DISPLAY = TRUE]
      [] c = "clear_ssh_set_display" ->
           [env EXCEPT !.SSH_TTY = FALSE, !.SSH_CLIENT = FALSE, !.SSH_CONNECTION = FALSE,
                       !.DISPLAY = TRUE]
      [] OTHER -> [env EXCEPT !.portFree = FALSE]

\* The probe variables of a model in which the probe is not followed.
InitProbeIdle ==
    /\ qpc = "idle"
    /\ probeEnv = NoEnvironment
    /\ probeRes = NoAvailability
    /\ probeLn = "none"
    /\ prevEnv = NoEnvironment
    /\ prevRes = NoAvailability
    /\ change = "none"

\* checkBrowserAvailability is called in some environment.
InitProbe ==
    /\ qpc = "env"
    /\ probeEnv \in Environments
    /\ probeRes = NoAvailability
    /\ probeLn = "none"
    /\ prevEnv = NoEnvironment
    /\ prevRes = NoAvailability
    /\ change = "none"

\* detect.go lines 31-44: stage 1.
ProbeEnvStage ==
    /\ qpc = "env"
    /\ IF EnvStage(probeEnv) # ""
       THEN /\ probeRes' = [Available |-> FALSE, Reason |-> EnvStage(probeEnv)]
            /\ qpc' = "returned"
       ELSE /\ qpc' = "bind"
            /\ UNCHANGED probeRes
    /\ UNCHANGED otherThanProbe
    /\ UNCHANGED <<probeEnv, probeLn, prevEnv, prevRes, change>>

\* detect.go lines 48-55: stage 2, the bind of 127.0.0.1:<port>.
ProbeBind ==
    /\ qpc = "bind"
    /\ IF probeEnv.portFree
       THEN /\ probeLn' = "open"
            /\ qpc' = "close"
            /\ UNCHANGED probeRes
       ELSE /\ probeRes' = [Available |-> FALSE, Reason |-> "callback port unavailable"]
            /\ qpc' = "returned"
            /\ UNCHANGED probeLn
    /\ UNCHANGED otherThanProbe
    /\ UNCHANGED <<probeEnv, prevEnv, prevRes, change>>

\* detect.go lines 56-58: ln.Close() and the return.
ProbeClose ==
    /\ qpc = "close"
    /\ probeLn' = "closed"
    /\ probeRes' = [Available |-> TRUE, Reason |-> ""]
    /\ qpc' = "returned"
    /\ UNCHANGED otherThanProbe
    /\ UNCHANGED <<probeEnv, prevEnv, prevRes, change>>

\* The environment changes and the probe is called a second time.
ProbeAgain(c) ==
    /\ qpc = "returned"
    /\ change = "none"
    /\ change' = c
    /\ prevEnv' = probeEnv
    /\ prevRes' = probeRes
    /\ probeEnv' = ChangeEnv(c, probeEnv)
    /\ probeRes' = NoAvailability
    /\ probeLn' = "none"
    /\ qpc' = "env"
    /\ UNCHANGED otherThanProbe

(***************************************************************************)
(* PART VI: THE TOKEN REQUESTS OF THE FLOWS AND THEIR SAVES                *)
(*                                                                         *)
(* One process obtains tokens by the browser flow (performBrowserFlow from *)
(* the generation of the PKCE parameters, with exchangeCode), by the       *)
(* device flow, or renews them by refreshAccessToken, one operation after  *)
(* the other; each successful one calls saveTokens.  performDeviceFlow,    *)
(* GeneratePKCE and isPublicClient are not among the sources: the device   *)
(* flow's record follows section 4.6 of the specification, the PKCE        *)
(* parameters section 4.3, isPublicClient its test (main_test.go 86-98).   *)
(***************************************************************************)

\* Every operation is one saveTokens call of the store model.
MaxOps == NumWriters
OpWriter == ops + 1

\* Another process, which has left its .lock sidecar behind.
ForeignHolder == NumWriters + 1

\* performBrowserFlow lines 68-74 and refreshAccessToken lines 362-365: what
\* the operation returns after saveTokens returned saveResult; a save error
\* is only printed.
ReturnAfterSaveFailing(saveResult, st) ==
    IF saveResult = "ok" THEN [err |-> "", storage |-> st]
    ELSE [err |-> "save_failed", storage |-> NoRecord]

ReturnAfterSave(saveResult, st) == [err |-> "", storage |-> st]

ClientSecrets == {"", "secret"}

\* isPublicClient()
isPublicClient(secret) == secret = ""

\* base64url(SHA-256(verifier)): a value that names its verifier.
S256(verifier) == <<"S256", verifier>>

\* GeneratePKCE: each attempt draws a fresh verifier.
GeneratePKCE(attempt) ==
    LET v == IF attempt = 1 THEN "verifier-1"
             ELSE IF attempt = 2 THEN "verifier-2" ELSE "verifier-3"
    IN  [Verifier |-> v, Challenge |-> S256(v), Method |-> "S256"]

NoPKCE == [Verifier |-> "", Challenge |-> <<>>, Method |-> ""]
NoForm == [k \in {} |-> ""]

\* buildAuthURL, part_001 lines 78-88.
buildAuthURL(state, p) ==
    [client_id |-> configuredClientID, redirect_uri |-> "redirectURI",
     response_type |-> "code", scope |-> "scope", state |-> state,
     code_challenge |-> p.Challenge, code_challenge_method |-> p.Method]

\* exchangeCode, part_001 lines 95-106: the form of the exchange request.
ExchangeFormSecretInsteadOfVerifier(code, codeVerifier, secret) ==
    [k \in {"grant_type", "code", "redirect_uri", "client_id"}
           \cup (IF isPublicClient(secret) THEN {"code_verifier"} ELSE {"client_secret"}) |->
       CASE k = "grant_type"    -> "authorization_code"
         [] k = "code"          -> code
         [] k = "redirect_uri"  -> "redirectURI"
         [] k = "client_id"     -> configuredClientID
         [] k = "code_verifier" -> codeVerifier
         [] OTHER               -> secret]

ExchangeForm(code, codeVerifier, secret) ==
    [k \in {"grant_type", "code", "redirect_uri", "client_id", "code_verifier"}
           \cup (IF isPublicClient(secret) THEN {} ELSE {"client_secret"}) |->
       CASE k = "grant_type"    -> "authorization_code"
         [] k = "code"          -> code
         [] k = "redirect_uri"  -> "redirectURI"
         [] k = "client_id"     -> configuredClientID
         [] k = "code_verifier" -> codeVerifier
         [] OTHER               -> secret]

\* refreshAccessToken, part_003 lines 289-295: the form of the refresh request.
RefreshForm(refreshToken, secret) ==
    [k \in {"grant_type", "refresh_token", "client_id"}
           \cup (IF isPublicClient(secret) THEN {} ELSE {"client_secret"}) |->
       CASE k = "grant_type"    -> "refresh_token"
         [] k = "refresh_token" -> refreshToken
         [] k = "client_id"     -> configuredClientID
         [] OTHER               -> secret]

\* What the token endpoint can answer to an exchange, a device-code poll's
\* last request or a refresh: as RefreshResponses, with access tokens of
\* length 0, 5, 9 and 10 and lifetimes -1, 0 and 3600.
AnswerBodies ==
    [error : {""},
     access_token : {"", "short", "nine-char", "ten-chars!"},
     refresh_token : {"", "refresh-2"},
     token_type : {"", "Bearer", "mac"},
     expires_in : {-1, 0, 3600}]

Answers ==
    { [transport |-> FALSE, status |-> 200, json |-> TRUE, body |-> b] : b \in AnswerBodies }
    \cup { r \in RefreshResponses : r.transport \/ r.status # 200 \/ ~r.json }

\* exchangeCode, part_001 lines 119-166: the error it returns ("" for none)
\* and the record it has built.
ExchangeOutcome(resp) ==
    IF resp.transport THEN [err |-> "request_failed", storage |-> NoRecord]
    ELSE IF resp.status # 200
    THEN [err |-> IF resp.json /\ resp.body.error # "" THEN "oauth_error" ELSE "bad_status",
          storage |-> NoRecord]
    ELSE IF ~resp.json THEN [err |-> "parse_failed", storage |-> NoRecord]
    ELSE IF validateTokenResponse(resp.body.access_token, resp.body.token_type,
                                  resp.body.expires_in) # ""
    THEN [err |-> "invalid_token_response", storage |-> NoRecord]
    ELSE [err |-> "",
          storage |-> [AccessToken  |-> resp.body.access_token,
                       RefreshToken |-> resp.body.refresh_token,
                       TokenType    |-> resp.body.token_type,
                       ExpiresAt    |-> ExpiryOf(resp.body.expires_in),
                       ClientID     |-> configuredClientID,
                       Flow         |-> ""]]

\* performBrowserFlow line 66: storage.Flow = "browser".
Stamp(r, flow) == [r EXCEPT !.Flow = flow]

\* The token files an operation can find: none, or the record of an earlier
\* browser flow.
StoredBefore ==
    [AccessToken |-> "access-token-0", RefreshToken |-> "refresh-1", TokenType |-> "Bearer",
     ExpiresAt |-> [wall |-> "T1", mono |-> FALSE], ClientID |-> configuredClientID,
     Flow |-> "browser"]

\* The operation variables of a model in which no operation runs.
InitOpsIdle ==
    /\ opc = "off"
    /\ ops = 0
    /\ opKind = ""
    /\ clientSecret = ""
    /\ pkce = NoPKCE
    /\ authURL = NoForm
    /\ form = NoForm
    /\ opResp = NoResponse
    /\ opErr = ""
    /\ opStorage = NoRecord
    /\ fileBefore = [err |-> TRUE, bytes |-> Truncated]
    /\ origin = ""

\* The process starts with no token file or with the file of an earlier
\* browser flow, as a public or as a confidential client; the .lock sidecar
\* of another process may be there.
InitOps ==
    /\ opc = "idle"
    /\ ops = 0
    /\ opKind = ""
    /\ clientSecret \in ClientSecrets
    /\ pkce = NoPKCE
    /\ authURL = NoForm
    /\ form = NoForm
    /\ opResp = NoResponse
    /\ opErr = ""
    /\ opStorage = NoRecord
    /\ fileBefore = [err |-> TRUE, bytes |-> Truncated]
    /\ pc = [w \in Writers |-> "idle"]
    /\ rec = [w \in Writers |-> NoRecord]
    /\ result = [w \in Writers |-> "none"]
    /\ data = [w \in Writers |-> Truncated]
    /\ fd = [w \in Writers |-> 0]
    /\ lockOwner \in {0, ForeignHolder}
    /\ lockStale = FALSE
    /\ tmpIno = 0
    /\ loaded = NoLoad
    /\ lastSaved = [c \in ClientIDs |-> NoRecord]
    /\ lastCid = ""
    /\ \/ /\ fileIno = 0
          /\ inode = [i \in 1..(NumWriters + 1) |-> Truncated]
          /\ origin = ""
       \/ /\ fileIno = PreexistingInode
          /\ inode = [i \in 1..(NumWriters + 1) |->
                        IF i = PreexistingInode
                        THEN MarshalMap(PutEntry(EmptyMap, StoredBefore)) ELSE Truncated]
          /\ origin = "browser"

\* performBrowserFlow lines 22-32: state and PKCE are generated and the
\* authorization URL is built.
BrowserAttempt ==
    /\ opc = "idle"
    /\ opKind' = "browser"
    /\ pkce' = GeneratePKCE(ops + 1)
    /\ authURL' = buildAuthURL(expectedState, GeneratePKCE(ops + 1))
    /\ fileBefore' = ReadFile
    /\ opc' = "authorized"
    /\ UNCHANGED <<storeVars, cbVars, mainVars, pollVars, probeVars>>
    /\ UNCHANGED <<ops, clientSecret, form, opResp, opErr, opStorage, origin>>

\* performBrowserFlow line 62 and exchangeCode lines 95-119: the callback has
\* brought the code; the exchange request is sent.
ExchangeSend(code) ==
    /\ opc = "authorized"
    /\ form' = ExchangeForm(code, pkce.Verifier, clientSecret)
    /\ opc' = "exchange_sent"
    /\ UNCHANGED <<storeVars, cbVars, mainVars, pollVars, probeVars>>
    /\ UNCHANGED <<ops, opKind, clientSecret, pkce, authURL, opResp, opErr, opStorage,
                   fileBefore, origin>>

\* exchangeCode lines 119-166 and performBrowserFlow lines 63-68: the answer
\* is handled; on success the record is stamped and saveTokens is called.
ExchangeAnswer(resp) ==
    /\ opc = "exchange_sent"
    /\ opResp' = resp
    /\ opErr' = ExchangeOutcome(resp).err
    /\ IF ExchangeOutcome(resp).err # ""
       THEN /\ opc' = "ended"
            /\ UNCHANGED <<opStorage, rec, pc>>
       ELSE /\ opStorage' = Stamp(ExchangeOutcome(resp).storage, "browser")
            /\ rec' = [rec EXCEPT ![OpWriter] =
                          DefaultClientID(Stamp(ExchangeOutcome(resp).storage, "browser"),
                                          configuredClientID)]
            /\ pc' = [pc EXCEPT ![OpWriter] = "lock"]
            /\ opc' = "saving"
    /\ UNCHANGED <<cbVars, mainVars, pollVars, probeVars>>
    /\ UNCHANGED <<result, data, fd, lockOwner, lockStale, fileIno, tmpIno, inode,
                   loaded, lastSaved, lastCid>>
    /\ UNCHANGED <<ops, opKind, clientSecret, pkce, authURL, form, fileBefore, origin>>

\* The device flow: the poller has returned the token endpoint's 200 answer;
\* it is validated, stamped flow = "device" and saved.
DeviceAnswer(resp) ==
    /\ opc = "idle"
    /\ opKind' = "device"
    /\ fileBefore' = ReadFile
    /\ opResp' = resp
    /\ opErr' = ExchangeOutcome(resp).err
    /\ IF ExchangeOutcome(resp).err # ""
       THEN /\ opc' = "ended"
            /\ UNCHANGED <<opStorage, rec, pc>>
       ELSE /\ opStorage' = Stamp(ExchangeOutcome(resp).storage, "device")
            /\ rec' = [rec EXCEPT ![OpWriter] =
                          DefaultClientID(Stamp(ExchangeOutcome(resp).storage, "device"),
                                          configuredClientID)]
            /\ pc' = [pc EXCEPT ![OpWriter] = "lock"]
            /\ opc' = "saving"
    /\ UNCHANGED <<cbVars, mainVars, pollVars, probeVars>>
    /\ UNCHANGED <<result, data, fd, lockOwner, lockStale, fileIno, tmpIno, inode,
                   loaded, lastSaved, lastCid>>
    /\ UNCHANGED <<ops, clientSecret, pkce, authURL, form, origin>>

\* main lines 176-184 and refreshAccessToken lines 289-304: tokens were
\* loaded and the refresh request is sent with their refresh token.
RefreshSend ==
    /\ opc = "idle"
    /\ LoadTokens(configuredClientID).kind = "ok"
    /\ opKind' = "refresh"
    /\ fileBefore' = ReadFile
    /\ form' = RefreshForm(LoadTokens(configuredClientID).rec.RefreshToken, clientSecret)
    /\ opc' = "refresh_sent"
    /\ UNCHANGED <<storeVars, cbVars, mainVars, pollVars, probeVars>>
    /\ UNCHANGED <<ops, clientSecret, pkce, authURL, opResp, opErr, opStorage, origin>>

\* refreshAccessToken lines 304-362: the answer is handled; on success the
\* new record is built and saveTokens is called.
RefreshAnswer(resp) ==
    /\ opc = "refresh_sent"
    /\ opResp' = resp
    /\ opErr' = RefreshOutcome(resp, form["refresh_token"]).err
    /\ IF RefreshOutcome(resp, form["refresh_token"]).err # ""
       THEN /\ opc' = "ended"
            /\ UNCHANGED <<opStorage, rec, pc>>
       ELSE /\ opStorage' = RefreshOutcome(resp, form["refresh_token"]).storage
            /\ rec' = [rec EXCEPT ![OpWriter] =
                          DefaultClientID(RefreshOutcome(resp, form["refresh_token"]).storage,
                                          configuredClientID)]
            /\ pc' = [pc EXCEPT ![OpWriter] = "lock"]
            /\ opc' = "saving"
    /\ UNCHANGED <<cbVars, mainVars, pollVars, probeVars>>
    /\ UNCHANGED <<result, data, fd, lockOwner, lockStale, fileIno, tmpIno, inode,
                   loaded, lastSaved, lastCid>>
    /\ UNCHANGED <<ops, opKind, clientSecret, pkce, authURL, form, fileBefore, origin>>

\* saveTokens has returned; the operation returns its record.
SaveReturn ==
    /\ opc = "saving"
    /\ pc[OpWriter] = "done"
    /\ opc' = "ended"
    /\ opErr' = ReturnAfterSave(result[OpWriter], opStorage).err
    /\ opStorage' = ReturnAfterSave(result[OpWriter], opStorage).storage
    /\ origin' = IF result[OpWriter] = "ok" /\ opKind \in {"browser", "device"}
                 THEN opKind ELSE origin
    /\ UNCHANGED <<storeVars, cbVars, mainVars, pollVars, probeVars>>
    /\ UNCHANGED <<ops, opKind, clientSecret, pkce, authURL, form, opResp, fileBefore>>

\* The operation's locals are gone; the process goes on to its next one.
OpNext ==
    /\ opc = "ended"
    /\ ops' = ops + 1
    /\ opc' = IF ops + 1 < MaxOps THEN "idle" ELSE "finished"
    /\ opKind' = ""
    /\ pkce' = NoPKCE
    /\ authURL' = NoForm
    /\ form' = NoForm
    /\ opResp' = NoResponse
    /\ opErr' = ""
    /\ opStorage' = NoRecord
    /\ UNCHANGED <<storeVars, cbVars, mainVars, pollVars, probeVars>>
    /\ UNCHANGED <<clientSecret, fileBefore, origin>>

(***************************************************************************)
(* SPECIFICATIONS                                                          *)
(***************************************************************************)

\* Concurrent saveTokens calls (one per writer, in any number of processes),
\* loadTokens calls, crashes and the passing of time.
NextStore ==
    \/ \E w \in Writers, r \in Records, c \in ClientIDs : SaveStart(w, r, c)
    \/ \E w \in Writers : LockAcquire(w)
    \/ \E w \in Writers : LockInspect(w)
    \/ \E w \in Writers : LockRemoveStale(w)
    \/ \E w \in Writers : LockTimeout(w)
    \/ LockAges
    \/ \E w \in Writers : ReadMerge(w)
    \/ \E w \in Writers : WriteOpen(w)
    \/ \E w \in Writers : WriteData(w)
    \/ \E w \in Writers : Rename(w)
    \/ \E w \in Writers : Release(w)
    \/ \E w \in Writers : Crash(w)
    \/ \E c \in ClientIDs : Load(c)

\* The lock protocol alone: concurrent saveTokens calls of one client's
\* record, crashes and the passing of time.
LockRecords == { r \in Records : r.ClientID = "a" /\ r.Flow = "browser" }

NextLock ==
    \/ \E w \in Writers, r \in LockRecords : SaveStart(w, r, "a")
    \/ \E w \in Writers : LockAcquire(w)
    \/ \E w \in Writers : LockInspect(w)
    \/ \E w \in Writers : LockRemoveStale(w)
    \/ \E w \in Writers : LockTimeout(w)
    \/ LockAges
    \/ \E w \in Writers : ReadMerge(w)
    \/ \E w \in Writers : WriteOpen(w)
    \/ \E w \in Writers : WriteData(w)
    \/ \E w \in Writers : Rename(w)
    \/ \E w \in Writers : Release(w)
    \/ \E w \in Writers : Crash(w)

\* Concurrent saveTokens calls in an environment where writing and renaming
\* can fail, with a record that cannot be serialized among the arguments.
SaveRecords ==
    LockRecords \cup
    { [r EXCEPT !.ExpiresAt = [wall |-> "Y10000", mono |-> FALSE]] : r \in LockRecords }

NextSave ==
    \/ \E w \in Writers, r \in SaveRecords : SaveStart(w, r, "a")
    \/ \E w \in Writers : LockAcquire(w)
    \/ \E w \in Writers : LockInspect(w)
    \/ \E w \in Writers : LockRemoveStale(w)
    \/ \E w \in Writers : LockTimeout(w)
    \/ LockAges
    \/ \E w \in Writers : ReadMerge(w)
    \/ \E w \in Writers : MarshalFail(w)
    \/ \E w \in Writers : WriteOpen(w)
    \/ \E w \in Writers : WriteData(w)
    \/ \E w \in Writers : WriteFail(w)
    \/ \E w \in Writers : Rename(w)
    \/ \E w \in Writers : RenameFail(w, TRUE)
    \/ \E w \in Writers : RenameFail(w, FALSE)
    \/ \E w \in Writers : Release(w)
    \/ \E w \in Writers : Crash(w)

\* What the scheduler guarantees to a process that is alive: its retry loop
\* makes its next attempt (or gives up), and a call that holds the lock
\* takes its next step.  Nothing is assumed about when a sidecar gets old.
FairLock ==
    \A w \in Writers :
      /\ WF_vars(LockAcquire(w) \/ LockInspect(w) \/ LockTimeout(w))
      /\ WF_vars(LockRemoveStale(w))
      /\ WF_vars(ReadMerge(w) \/ WriteOpen(w) \/ WriteData(w) \/ Rename(w) \/ Release(w))

\* saveTokens calls that do not overlap in time: a call starts only when no
\* other call is in progress (a crashed call is no longer in progress).
NextStoreSeq ==
    \/ \E w \in Writers, r \in Records, c \in ClientIDs : Alone(w) /\ SaveStart(w, r, c)
    \/ \E w \in Writers : LockAcquire(w)
    \/ \E w \in Writers : LockInspect(w)
    \/ \E w \in Writers : LockRemoveStale(w)
    \/ \E w \in Writers : LockTimeout(w)
    \/ LockAges
    \/ \E w \in Writers : ReadMerge(w)
    \/ \E w \in Writers : WriteOpen(w)
    \/ \E w \in Writers : WriteData(w)
    \/ \E w \in Writers : Rename(w)
    \/ \E w \in Writers : Release(w)
    \/ \E w \in Writers : Crash(w)
    \/ \E c \in ClientIDs : Load(c)

\* One run of startCallbackServer inside performBrowserFlow.
NextCallback ==
    \/ Listen
    \/ ListenFail
    \/ EnterSelect
    \/ Tick
    \/ CtxCancel
    \/ \E h \in Requests, q \in Queries : Handle(h, q)
    \/ \E h \in Requests : SendResult(h)
    \/ Return
    \/ FlowError
    \/ \E ok \in BOOLEAN : FlowExchange(ok)

\* The start of the program up to the API-call phase: main, the refresh with
\* its saveTokens call, authenticate, and the browser flow with the callback
\* listener serving the redirect.  main's context is context.Background()
\* (line 172) and is never cancelled.
NextMain ==
    \/ MainLoad
    \/ \E resp \in RefreshResponses : RefreshRequest(resp)
    \/ \E w \in {MainWriter} : LockAcquire(w)
    \/ \E w \in {MainWriter} : LockTimeout(w)
    \/ \E w \in {MainWriter} : ReadMerge(w)
    \/ \E w \in {MainWriter} : WriteOpen(w)
    \/ \E w \in {MainWriter} : WriteData(w)
    \/ \E w \in {MainWriter} : Rename(w)
    \/ \E w \in {MainWriter} : Release(w)
    \/ RefreshReturn
    \/ AuthStart
    \/ \E env \in Environments : Probe(env)
    \/ \E start \in BrowserStarts : BrowserStart(start)
    \/ Listen
    \/ ListenFail
    \/ EnterSelect
    \/ Tick
    \/ \E h \in {TheRedirect}, q \in Queries : Handle(h, q)
    \/ \E h \in {TheRedirect} : SendResult(h)
    \/ Return
    \/ FlowError
    \/ \E ok \in BOOLEAN : FlowExchange(ok)
    \/ AuthAfterBrowser
    \/ \E ok \in BOOLEAN : DeviceFlow(ok)
    \/ MainAfterAuth
    \/ \E ok \in BOOLEAN : MainVerify(ok)

\* One run of the device-flow poller.
NextPoll ==
    \/ \E interval \in ServerIntervals : PollStart(interval)
    \/ \E kind \in {"canceled", "deadline"} : PollCtxDone(kind)
    \/ PollTimePasses
    \/ UITick
    \/ PollTick
    \/ \E r \in PollResponses, tok \in PollTokens : PollResponse(r, tok)
    \/ PollCancelled
    \/ PollExpire

\* What the runtime and the network guarantee to one run: time passes, a
\* request is answered or fails within the HTTP client's timeout, and a
\* ready case of the select loop is taken.
FairPoll ==
    /\ WF_vars(\E interval \in ServerIntervals : PollStart(interval))
    /\ WF_vars(PollTimePasses)
    /\ WF_vars(\E r \in PollResponses, tok \in PollTokens : PollResponse(r, tok))
    /\ WF_vars(PollCancelled)
    /\ WF_vars(PollExpire)

\* Two runs of the environment probe.
NextProbe ==
    \/ ProbeEnvStage
    \/ ProbeBind
    \/ ProbeClose
    \/ \E c \in EnvChanges : ProbeAgain(c)

\* The operations of one process, each with the steps of its saveTokens.
NextOps ==
    \/ BrowserAttempt
    \/ \E code \in {"code-1"} : ExchangeSend(code)
    \/ \E resp \in Answers : ExchangeAnswer(resp)
    \/ \E resp \in Answers : DeviceAnswer(resp)
    \/ RefreshSend
    \/ \E resp \in Answers : RefreshAnswer(resp)
    \/ \E w \in Writers : LockAcquire(w)
    \/ \E w \in Writers : LockInspect(w)
    \/ \E w \in Writers : LockRemoveStale(w)
    \/ \E w \in Writers : LockTimeout(w)
    \/ LockAges
    \/ \E w \in Writers : ReadMerge(w)
    \/ \E w \in Writers : WriteOpen(w)
    \/ \E w \in Writers : WriteData(w)
    \/ \E w \in Writers : WriteFail(w)
    \/ \E w \in Writers : Rename(w)
    \/ \E w \in Writers : RenameFail(w, TRUE)
    \/ \E w \in Writers : RenameFail(w, FALSE)
    \/ \E w \in Writers : Release(w)
    \/ SaveReturn
    \/ OpNext

\* The API-call phase of main, with the re-authentication it can start.
NextApi ==
    \/ \E answer \in ApiAnswers : ApiRequest(answer)
    \/ \E resp \in RefreshResponses : ApiRefresh(resp)
    \/ \E w \in Writers : LockAcquire(w)
    \/ \E w \in Writers : ReadMerge(w)
    \/ \E w \in Writers : WriteOpen(w)
    \/ \E w \in Writers : WriteData(w)
    \/ \E w \in Writers : Rename(w)
    \/ \E w \in Writers : Release(w)
    \/ ApiRefreshReturn
    \/ \E answer \in ApiAnswers : ApiRetry(answer)
    \/ MainAfterAPICall
    \/ AuthStart
    \/ \E env \in Environments : Probe(env)
    \/ \E start \in BrowserStarts : BrowserStart(start)
    \/ Listen
    \/ ListenFail
    \/ EnterSelect
    \/ Tick
    \/ \E h \in {TheRedirect}, q \in Queries : Handle(h, q)
    \/ \E h \in {TheRedirect} : SendResult(h)
    \/ Return
    \/ FlowError
    \/ \E ok \in BOOLEAN : FlowExchange(ok)
    \/ AuthAfterBrowser
    \/ \E ok \in BOOLEAN : DeviceFlow(ok)
    \/ MainAfterAuth

Init ==
    InitStore /\ InitCallback /\ InitMainIdle /\ InitPollIdle /\ InitProbeIdle /\ InitOpsIdle
InitSeq ==
    /\ (InitStore \/ InitStoreEmptyFile \/ InitStoreNullMap)
    /\ InitCallback /\ InitMainIdle /\ InitPollIdle /\ InitProbeIdle /\ InitOpsIdle
InitMainSpec == InitMain /\ InitPollIdle /\ InitProbeIdle /\ InitOpsIdle
InitApiSpec == InitApi /\ InitPollIdle /\ InitProbeIdle /\ InitOpsIdle
InitPollSpec ==
    InitStore /\ InitCallback /\ InitMainIdle /\ InitPoll /\ InitProbeIdle /\ InitOpsIdle
InitProbeSpec ==
    InitStore /\ InitCallback /\ InitMainIdle /\ InitPollIdle /\ InitProbe /\ InitOpsIdle
InitOpsSpec == InitOps /\ InitCallback /\ InitMainIdle /\ InitPollIdle /\ InitProbeIdle

Spec == Init /\ [][NextStore]_vars
SpecStoreSeq == InitSeq /\ [][NextStoreSeq]_vars
SpecCallback == Init /\ [][NextCallback]_vars
SpecMain == InitMainSpec /\ [][NextMain]_vars
SpecApi == InitApiSpec /\ [][NextApi]_vars
SpecPoll == InitPollSpec /\ [][NextPoll]_vars
SpecOps == InitOpsSpec /\ [][NextOps]_vars
SpecSave == Init /\ [][NextSave]_vars
SpecLock == Init /\ [][NextLock]_vars
SpecLockLive == Init /\ [][NextLock]_vars /\ FairLock
SpecProbe == InitProbeSpec /\ [][NextProbe]_vars
SpecPollLive == InitPollSpec /\ [][NextPoll]_vars /\ FairPoll

(***************************************************************************)
(* PROPERTIES OF THE TOKEN STORE                                           *)
(***************************************************************************)

\* The token file as a reader parses it.
FileParses == fileIno # 0 /\ inode[fileIno].complete
FileTokens == UnmarshalMap(inode[fileIno]).Tokens
SavedClients == { c \in ClientIDs : lastSaved[c] # NoRecord }

\* Two TokenStorage values agree in every field; expiry is compared as an
\* instant (time.Time.Equal), which ignores the monotonic reading.
RecEqual(x, y) ==
    /\ x.AccessToken = y.AccessToken
    /\ x.RefreshToken = y.RefreshToken
    /\ x.TokenType = y.TokenType
    /\ x.ExpiresAt.wall = y.ExpiresAt.wall
    /\ x.ClientID = y.ClientID
    /\ x.Flow = y.Flow

\* C1: when every one of the concurrent saveTokens calls has returned
\* success and the calls were for pairwise distinct client ids, the token
\* file parses and holds an entry for each of them.
C1_ConcurrentWritersKeepAllEntries ==
    ( /\ \A w \in Writers : pc[w] = "done" /\ result[w] = "ok"
      /\ Cardinality(SavedClients) = Cardinality(Writers) )
    => (FileParses /\ SavedClients \subseteq DOMAIN FileTokens)

\* C2: at every moment at most one saveTokens call is between acquiring the
\* .lock sidecar and releasing it.
C2_MutualExclusion == Cardinality({ w \in Writers : InCritical(w) }) <= 1

\* C3: a loadTokens for client c, made after a save for c has succeeded,
\* returns a record equal to the one of the latest such save, whatever saves
\* for other clients came in between.
C3_RoundTrip ==
    (loaded.kind # "none" /\ loaded.expect # NoRecord)
    => (loaded.kind = "ok" /\ RecEqual(loaded.rec, loaded.expect))

\* C3 witness: client b was saved after client a, then a was loaded, and a's
\* record is one whose expiry carried a monotonic reading when it was saved.
C3_Witness ==
    /\ loaded.kind = "ok"
    /\ loaded.cid = "a"
    /\ loaded.after = "b"
    /\ loaded.expect.ExpiresAt.mono
    /\ loaded.rec.RefreshToken = "refresh-1"

\* A successful rename by w over a token file that parses changes only the
\* entry of w's client.
C4_FrameStep ==
    \A w \in Writers :
        (pc[w] = "rename" /\ pc'[w] = "release" /\ result'[w] = "ok" /\ FileParses)
        => LET old == FileTokens
               new == UnmarshalMap(inode'[fileIno']).Tokens
           IN  /\ DOMAIN new = DOMAIN old \cup {rec[w].ClientID}
               /\ RecEqual(new[rec[w].ClientID], rec[w])
               /\ \A c \in DOMAIN old \ {rec[w].ClientID} : new[c] = old[c]

\* A token file that parses holds exactly the clients saved so far.
C4_FileHoldsSavedClients == FileParses => DOMAIN FileTokens = SavedClients

\* C4: saveTokens(R) over a token file that parses changes only the entry
\* under R.client_id, and after N distinct clients were saved the file holds
\* exactly N entries.
C4_SaveChangesOnlyOwnEntry == []C4_FileHoldsSavedClients /\ [][C4_FrameStep]_vars

\* C4 witness: two saves for two clients have returned success and the file
\* holds both entries.
C4_Witness ==
    /\ \A w \in Writers : pc[w] = "done" /\ result[w] = "ok"
    /\ FileParses
    /\ DOMAIN FileTokens = {"a", "b"}

\* C5: the token file is absent or holds one complete serialized mapping at
\* every moment, and no loadTokens finds it unparsable.
C5_FileNeverPartial ==
    /\ fileIno = 0 \/ inode[fileIno].complete
    /\ loaded.kind # "parse_error"

(***************************************************************************)
(* PROPERTIES OF THE CALLBACK LISTENER                                     *)
(***************************************************************************)

Handled(h) == hpc[h] \in {"send", "done"} /\ req[h].path = "/callback"
StateMismatch == [Code |-> "", Error |-> "state_mismatch", Desc |-> "state parameter mismatch"]

\* C6, as stated: whenever some /callback request carried a state other than
\* the expected one, the result the listener returns for a callback is the
\* state-mismatch failure, and exchangeCode is not invoked in that run.
C6_AnyMismatchFailsTheRun ==
    \A h \in Requests :
        (Handled(h) /\ hpc[h] = "done" /\ req[h].state # expectedState)
        => /\ (cpc = "returned" /\ woken = "result")
                => outcome = ResultOutcome(StateMismatch)
           /\ exchangeCalls = 0

\* C6, amended: a /callback request whose state differs from the expected
\* one never yields a code: it is answered with a failure page and hands
\* sendResult a failure, the state-mismatch failure unless the request also
\* carries an error parameter (which is decided first); when that result is
\* the one delivered, the listener's result for the callback is that failure
\* and exchangeCode is never invoked in that run.
C6_MismatchFailsWhenDelivered ==
    \A h \in Requests :
        (Handled(h) /\ req[h].state # expectedState)
        => /\ hres[h].Code = "" /\ hres[h].Error # ""
           /\ page[h] = "failure"
           /\ req[h].error = "" => hres[h] = StateMismatch
           /\ req[h].error # "" => hres[h].Error = req[h].error
           /\ (deliveredBy = h /\ cpc = "returned" /\ woken = "result")
                => (outcome.kind = "error" /\ outcome.msg = FormatError(hres[h]))
           /\ (deliveredBy = h /\ req[h].error = "" /\ cpc = "returned" /\ woken = "result")
                => outcome.msg = <<"state_mismatch", ": ", "state parameter mismatch">>
           /\ deliveredBy = h => exchangeCalls = 0

\* C6 witness: a request with a code and the wrong state was delivered, the
\* listener returned and performBrowserFlow ended with a hard error.
C6_Witness ==
    \E h \in Requests :
        /\ Handled(h) /\ req[h].error = "" /\ req[h].state # expectedState
        /\ req[h].code # ""
        /\ deliveredBy = h
        /\ cpc = "returned" /\ woken = "result"
        /\ fpc = "done" /\ flowResult = "hard_error"

\* C7: over all requests of one listener run exactly one result is sent on
\* resultCh, a handler that has reached sendResult can always complete it,
\* every handled request has a rendered page, and the result returned for a
\* callback is the one of the first sender, whatever later requests carry.
C7_ExactlyOneResult ==
    /\ sends <= 1
    /\ Len(resultCh) <= 1
    /\ (\E h \in Requests : Handled(h) /\ hpc[h] = "done") => sends = 1
    /\ \A h \in Requests : hpc[h] = "send" => ENABLED SendResult(h)
    /\ \A h \in Requests : hpc[h] \in {"send", "done"} => page[h] # "none"
    /\ (cpc = "returned" /\ woken = "result")
          => (deliveredBy # 0 /\ outcome = ResultOutcome(hres[deliveredBy]))

\* C7 witness: two /callback requests with different results were both
\* handled to the end and the listener returned the first sender's result.
C7_Witness ==
    \E h1, h2 \in Requests :
        /\ h1 # h2
        /\ Handled(h1) /\ hpc[h1] = "done"
        /\ Handled(h2) /\ hpc[h2] = "done"
        /\ deliveredBy = h1
        /\ hres[h2] # hres[h1]
        /\ page[h2] # "none"
        /\ cpc = "returned" /\ woken = "result"

C9_NothingWithinTwoMinutes ==
    /\ cpc = "returned"
    /\ outcome # ListenOutcome
    /\ woken # "ctx"
    /\ sendTime = -1 \/ sendTime >= 2

C9_TimeoutInv ==
    /\ C9_NothingWithinTwoMinutes
         => (outcome.kind = "error" /\ outcome.wraps = {"ErrCallbackTimeout"})
    /\ (cpc = "returned" /\ IsCallbackTimeout(outcome)) => (elapsed = 2 /\ woken = "timeout")

C10_ReleasedInv ==
    /\ cpc = "returned" => ~listening
    /\ (cpc = "waiting" /\ ctxCancelled) => ENABLED Return

C11_PageAgreesWithOutcome ==
    \A h \in Requests :
        (deliveredBy = h /\ cpc = "returned" /\ woken = "result" /\ fpc = "done")
        => /\ page[h] = "success" <=> flowResult = "success"
           /\ (exchangeCalls > 0 /\ flowResult # "success") => page[h] = "failure"

(***************************************************************************)
(* PROPERTIES OF MAIN AND AUTHENTICATE                                     *)
(***************************************************************************)

Range(seq) == { seq[i] : i \in 1..Len(seq) }

\* authenticate has returned to main.
AuthReturned ==
    \/ mpc \in {"auth_done", "exit1"}
    \/ mpc \in {"verify", "api"} /\ "authenticate" \in Range(ran)

\* What authenticate has done so far, in order.
IsAuthEvent(e) ==
    e \in {"authenticate", "probe_available", "probe_unavailable", "browser", "device"}
AuthRun == SelectSeq(ran, IsAuthEvent)

\* The browser flow ran and openBrowser failed / the listener timed out.
LaunchFailed == "open_browser_failed" \in Range(ran)
TimedOut == cpc = "returned" /\ outcome = TimeoutOutcome

CascadeRuns ==
    IF forceDevice
    THEN { <<"authenticate", "device">> }
    ELSE { <<"authenticate", "probe_unavailable", "device">> }
         \cup { <<"authenticate", "probe_available", "browser">> :
                  x \in { y \in {flowResult} : y \in {"success", "hard_error"} } }
         \cup { <<"authenticate", "probe_available", "browser", "device">> :
                  x \in { y \in {flowResult} : y = "fallback" } }

IsPrefix(a, b) == Len(a) <= Len(b) /\ a = SubSeq(b, 1, Len(a))

\* C13: authenticate follows the cascade: flag -> Device Flow alone; else the
\* probe, and Device Flow alone when it is unavailable; else Browser Flow,
\* with Device Flow after it exactly when it reported fall-back.  At every
\* moment what has run is the beginning of such a run, and when authenticate
\* has returned it is a whole one.
C13_Cascade ==
    /\ \E run \in { <<"authenticate", "device">>,
                    <<"authenticate", "probe_unavailable", "device">>,
                    <<"authenticate", "probe_available", "browser">>,
                    <<"authenticate", "probe_available", "browser", "device">> } :
          IsPrefix(AuthRun, run)
    /\ (forceDevice /\ Len(AuthRun) >= 2) => AuthRun[2] = "device"
    /\ (~forceDevice /\ Len(AuthRun) >= 2) => AuthRun[2] # "device"
    /\ AuthReturned => AuthRun \in CascadeRuns

\* C13 witness: no flag, the probe found a browser, the Browser Flow reported
\* fall-back and the Device Flow ran after it.
C13_Witness ==
    /\ ~forceDevice
    /\ AuthReturned
    /\ AuthRun = <<"authenticate", "probe_available", "browser", "device">>

\* The browser flow ended with one of the hard failures: the callback carried
\* an OAuth error, a wrong state or no code, or the exchange of the code
\* failed (an invalid token response included).
BrowserHardFailure ==
    /\ cpc = "returned"
    /\ woken = "result"
    /\ \/ outcome.kind = "error"
       \/ outcome.kind = "code" /\ exchangeCalls > 0 /\ flowResult # "success"

\* C14: when the Browser Flow ends with a state mismatch, an OAuth error, a
\* missing code or a failed exchange, performBrowserFlow returns a hard
\* error, authenticate returns that error, no Device Flow is started and main
\* exits instead of going on with a token.
C14_HardErrorsAreReturned ==
    /\ (BrowserHardFailure /\ fpc = "done") => flowResult = "hard_error"
    /\ (BrowserHardFailure /\ AuthReturned)
          => /\ authErr # NoError
             /\ authErr = BrowserFlowError
             /\ outcome.kind = "error" => authErr = <<"authorization failed: ">> \o outcome.msg
             /\ "device" \notin Range(ran)
             /\ mpc \in {"auth_done", "exit1"}
             /\ storage = NoRecord

\* C14 witness: the redirect carried a code and a wrong state, and main has
\* exited with the state-mismatch error.
C14_Witness ==
    /\ mpc = "exit1"
    /\ req[TheRedirect].state # expectedState /\ req[TheRedirect].error = ""
    /\ authErr = <<"authorization failed: ", "state_mismatch", ": ", "state parameter mismatch">>

\* C15: when the callback port is taken between the probe and the listener's
\* bind (net.Listen fails although the probe reported the port free), the
\* flow falls back: the Device Flow runs and authenticate does not return the
\* bind failure.
C15_PortCollisionFallsBack ==
    (outcome = ListenOutcome /\ AuthReturned)
    => /\ "device" \in Range(ran)
       /\ authErr \in {NoError, <<"device flow failed">>}

\* loadTokens returned a record / the record was still valid at start-up.
RecordLoaded == mpc # "load" /\ existing # NoRecord
ValidAtStart == RecordLoaded /\ now < Instant(existing.ExpiresAt.wall)
ExpiredAtStart == RecordLoaded /\ now >= Instant(existing.ExpiresAt.wall)

Count(seq, e) == Cardinality({ i \in 1..Len(seq) : seq[i] = e })

\* C16: at start-up a loaded record with now < expires_at is used as it is,
\* with no refresh and no authentication before the verification; an expired
\* record gets exactly one refresh, before any authentication; authenticate
\* runs only when no record was loaded or the refresh failed, and then it
\* does run.
C16_StartupOrder ==
    /\ ValidAtStart
          => /\ storage = existing
             /\ mpc \in {"verify", "api"}
             /\ "refresh" \notin Range(ran)
             /\ "authenticate" \notin Range(ran)
    /\ (ExpiredAtStart /\ mpc # "refresh")
          => /\ Len(ran) >= 1 /\ ran[1] = "refresh"
             /\ Count(ran, "refresh") = 1
    /\ Count(ran, "refresh") <= 1
    /\ Count(ran, "authenticate") <= 1
    /\ (mpc = "auth" \/ "authenticate" \in Range(ran))
          => (~RecordLoaded \/ (ExpiredAtStart /\ refreshErr # ""))
    /\ (mpc # "load" /\ ~RecordLoaded)
          => (mpc = "auth" \/ (Len(ran) >= 1 /\ ran[1] = "authenticate"))
    /\ (ExpiredAtStart /\ refreshErr # "")
          => (mpc = "auth" \/ (Len(ran) >= 2 /\ ran[2] = "authenticate"))
    /\ (ExpiredAtStart /\ mpc \notin {"refresh", "refresh_save"} /\ refreshErr = "")
          => (storage = newStorage /\ "authenticate" \notin Range(ran))

\* C16 witness: the record expires exactly now, the one refresh failed and
\* authenticate ran after it.
C16_Witness ==
    /\ ExpiredAtStart
    /\ now = Instant(existing.ExpiresAt.wall)
    /\ Len(ran) >= 2 /\ ran[1] = "refresh" /\ ran[2] = "authenticate"
    /\ refreshErr # ""

\* The refresh request got an OAuth error response (a status other than 200
\* with a JSON body) whose error is invalid_grant or invalid_token.
RefreshTokenRejected ==
    /\ refreshResp # NoResponse
    /\ ~refreshResp.transport
    /\ refreshResp.status # 200
    /\ refreshResp.json
    /\ refreshResp.body.error \in {"invalid_grant", "invalid_token"}

\* C17: an error response to the refresh request with error invalid_grant
\* or invalid_token (an OAuth error response, that is with a status other
\* than 200) makes refreshAccessToken return ErrRefreshTokenExpired, and no
\* other response does; every refresh failure, whichever it is, is followed
\* by authenticate, and the program exits only if authenticate itself fails.
C17_RefreshFailureReauthenticates ==
    /\ refreshResp # NoResponse
          => (RefreshTokenRejected <=> refreshErr = "ErrRefreshTokenExpired")
    /\ refreshErr \in {"", "ErrRefreshTokenExpired", "oauth_error", "bad_status",
                       "request_failed", "parse_failed", "invalid_token_response"}
    /\ (refreshResp # NoResponse /\ refreshResp.transport) => refreshErr = "request_failed"
    /\ (refreshResp # NoResponse /\ ~refreshResp.transport /\ refreshResp.status = 200
          /\ refreshResp.json /\ refreshResp.body.error # "")
          => refreshErr = "invalid_token_response"
    /\ refreshErr # ""
          => /\ mpc = "auth" \/ "authenticate" \in Range(ran)
             /\ mpc = "exit1" => authErr # NoError
             /\ mpc \in {"verify", "api"} => (authErr = NoError /\ storage \in {BrowserRecord, DeviceRecord})

\* C17 witness: the server answered invalid_grant, the sentinel was returned
\* and the re-authentication that followed has succeeded.
C17_Witness ==
    /\ RefreshTokenRejected
    /\ refreshResp.body.error = "invalid_grant"
    /\ refreshErr = "ErrRefreshTokenExpired"
    /\ mpc = "verify"
    /\ "authenticate" \in Range(ran)

\* refreshAccessToken got a response it accepted.
RefreshSucceeded ==
    /\ refreshResp # NoResponse
    /\ refreshErr = ""
    /\ mpc \in {"refresh_save", "verify", "api"}

\* C18: after a successful refresh the new record's refresh token is the
\* response's when the response has a non-empty one and the old one when it
\* has none; it is never empty when the old one was not; the record main
\* goes on with and the record saveTokens has written carry the same one.
C18_RefreshTokenCarry ==
    RefreshSucceeded
    => /\ refreshResp.body.refresh_token # ""
             => newStorage.RefreshToken = refreshResp.body.refresh_token
       /\ refreshResp.body.refresh_token = ""
             => newStorage.RefreshToken = existing.RefreshToken
       /\ existing.RefreshToken # "" => newStorage.RefreshToken # ""
       /\ mpc \in {"verify", "api"} => storage.RefreshToken = newStorage.RefreshToken
       /\ (pc[MainWriter] = "done" /\ result[MainWriter] = "ok")
             => /\ LoadTokens(configuredClientID).kind = "ok"
                /\ LoadTokens(configuredClientID).rec.RefreshToken = newStorage.RefreshToken

\* C18 witness: the response had no refresh_token, the old one was not empty,
\* and the saved file holds the old one with the new access token.
C18_Witness ==
    /\ RefreshSucceeded
    /\ refreshResp.body.refresh_token = ""
    /\ existing.RefreshToken # ""
    /\ pc[MainWriter] = "done" /\ result[MainWriter] = "ok"
    /\ LoadTokens(configuredClientID).rec.RefreshToken = existing.RefreshToken
    /\ LoadTokens(configuredClientID).rec.AccessToken = refreshResp.body.access_token

(***************************************************************************)
(* PROPERTIES OF THE DEVICE-FLOW POLLER                                    *)
(***************************************************************************)

Min(a, b) == IF a <= b THEN a ELSE b

PollRunning == ppc \in {"wait", "inflight", "done"}

\* base * 1.5^k in units of 1/PollUnit seconds, for k <= MaxSlowDowns.
BackedOff(base, k) == base * Pow(3, k) * Pow(2, MaxSlowDowns - k)

C19_IntervalFormula ==
    PollRunning
    => /\ slowDowns \in 0..MaxSlowDowns
       /\ pollInterval = Min(BackedOff(pollBase, slowDowns), maxPollInterval * PollUnit)
       /\ pollInterval <= maxPollInterval * PollUnit
       /\ pollBase >= 1

C19_BaseFromServer ==
    \A i \in ServerIntervals :
        PollStart(i) => /\ pollBase' = (IF i = 0 THEN 5 ELSE i)
                        /\ pollInterval' = pollBase' * PollUnit

\* C19: in the device-flow poller the interval after k slow_down responses
\* is min(base * 1.5^k, 60 s), where base is the server's interval, or 5 s
\* when that is absent or zero; the interval is never above 60 s.
C19_SlowDownBackoff == []C19_IntervalFormula /\ [][C19_BaseFromServer]_vars

\* C19 witness: base 10 s and five slow_down responses in a row; 10 * 1.5^5
\* is above the ceiling and the interval is 60 s.
C19_Witness ==
    /\ pollBase = 10
    /\ slowDowns = 5
    /\ lastResponse = "slow_down"
    /\ ppc = "wait"
    /\ BackedOff(10, 4) < maxPollInterval * PollUnit
    /\ pollInterval = maxPollInterval * PollUnit

C20_NeverDecreases ==
    /\ PollRunning => pollInterval' >= pollInterval
    /\ (\E tok \in PollTokens : PollResponse("authorization_pending", tok))
          => pollInterval' = pollInterval

C20_StaysRaised ==
    (PollRunning /\ slowDowns > 0) => pollInterval > pollBase * PollUnit

\* C20: during one device-flow run the poll interval never decreases; an
\* authorization_pending response leaves it exactly as it was, so once
\* slow_down has raised it, it stays above the base for the rest of the run.
C20_IntervalMonotone == []C20_StaysRaised /\ [][C20_NeverDecreases]_vars

\* C20 witness: base 1 s, two slow_down responses, then authorization_pending:
\* the interval is still 2.25 s.
C20_Witness ==
    /\ pollBase = 1
    /\ slowDowns = 2
    /\ lastResponse = "authorization_pending"
    /\ ppc = "wait"
    /\ pollInterval * 4 = 9 * PollUnit

PollEnded == ppc = "done"

C21_TerminalErrors ==
    /\ lastResponse = "expired_token"
          => (PollEnded /\ pollResult = "device code expired, please restart the flow")
    /\ lastResponse = "access_denied"
          => (PollEnded /\ pollResult = "user denied authorization")
    /\ lastResponse \in {"invalid_client", "transport"}
          => (PollEnded /\ pollResult \notin {"", "token"})
    /\ lastResponse \in {"expired_token", "access_denied", "invalid_client", "transport"}
          => (pollToken = "" /\ inflight = 0)

C21_NoPollAfterTheEnd ==
    PollEnded => (ppc' = "done" /\ pollsSent' = pollsSent /\ inflight' = inflight
                  /\ pollResult' = pollResult)

\* C21: in the device-flow poller expired_token ends the run with "device
\* code expired, please restart the flow", access_denied with "user denied
\* authorization", any other OAuth error and a transport error with a
\* failure; once the run has ended no poll request is sent.
C21_TerminalFailures == []C21_TerminalErrors /\ [][C21_NoPollAfterTheEnd]_vars

\* C21 witness: after a pending answer the server answered expired_token on
\* the second poll and the run ended with the expiry error.
C21_Witness ==
    /\ PollEnded
    /\ lastResponse = "expired_token"
    /\ pollsSent = 2
    /\ continued = 1
    /\ pollResult = "device code expired, please restart the flow"

C22_TokenEndsTheRun ==
    /\ (PollEnded /\ pollResult = "token")
          => /\ lastResponse = "token"
             /\ pollToken = answerToken
             /\ Len(pollToken) >= 10
             /\ pollsSent = continued + 1
             /\ inflight = 0
    /\ (PollEnded /\ lastResponse \in {"", "authorization_pending", "slow_down"})
          => \/ pollCtx # "live"
             \/ pollElapsed >= DeviceExpiry
    /\ (lastResponse = "token" /\ Len(answerToken) >= 10)
          => (PollEnded /\ pollResult = "token")
    /\ pollsSent >= continued + inflight
    /\ pollsSent <= continued + 1

C22_PollsOnUntilTheToken ==
    /\ \A r \in {"authorization_pending", "slow_down"}, tok \in PollTokens :
          PollResponse(r, tok) => (ppc' = "wait" /\ pollResult' = "" /\ pollToken' = "")
    /\ \A tok \in PollTokens :
          (PollResponse("token", tok) /\ Len(tok) >= 10)
             => (ppc' = "done" /\ pollToken' = tok /\ pollsSent' = continued + 1)

\* C22: the poller keeps polling through authorization_pending and slow_down
\* answers, and on the first 200 answer with a valid token it stops and
\* returns exactly that token; with n non-terminal answers before it the
\* server has received exactly n + 1 poll requests.
C22_PollUntilToken == []C22_TokenEndsTheRun /\ [][C22_PollsOnUntilTheToken]_vars

\* C22 witness: slow_down twice, authorization_pending twice, then the token
\* on the fifth request.
C22_Witness ==
    /\ PollEnded
    /\ pollResult = "token"
    /\ pollToken = "test-access-token"
    /\ slowDowns = 2
    /\ continued = 4
    /\ pollsSent = 5

C23_CancelledRunReturnsCtxErr ==
    /\ (PollEnded /\ pollCtx = "canceled")
          => /\ "context.Canceled" \in pollErrWraps
             /\ pollResult \notin {"", "token"}
             /\ pollToken = ""
    /\ (PollEnded /\ pollCtx = "deadline")
          => /\ "context.DeadlineExceeded" \in pollErrWraps
             /\ pollResult \notin {"", "token"}
             /\ pollToken = ""
    /\ (PollEnded /\ pollCtx = "live") => pollErrWraps = {}

C23_NoPollAfterCancel ==
    pollCtx # "live" => (pollsSent' = pollsSent /\ inflight' <= inflight)

\* C23: when the context is cancelled or its deadline passes during a
\* device-flow run, the poller returns an error whose chain contains the
\* context's error, and no poll request is started after the cancellation.
C23_ContextEndsTheRun == []C23_CancelledRunReturnsCtxErr /\ [][C23_NoPollAfterCancel]_vars

\* C23 witness: the server kept answering authorization_pending, the deadline
\* passed while the loop waited, and the run ended with DeadlineExceeded.
C23_Witness ==
    /\ PollEnded
    /\ pollCtx = "deadline"
    /\ lastResponse = "authorization_pending"
    /\ pollsSent >= 2
    /\ pollErrWraps = {"context.DeadlineExceeded"}

C24_NoPollAfterExpiry ==
    pollsSent' > pollsSent => pollElapsed < DeviceExpiry

C24_EndedAtExpiry ==
    (PollEnded /\ pollCtx = "live" /\ lastResponse \in {"", "authorization_pending", "slow_down"})
    => (pollElapsed = DeviceExpiry
        /\ pollResult = "device code expired, please restart the flow")

C25_AtMostOneInFlight ==
    /\ inflight \in {0, 1}
    /\ inflight = 1 <=> ppc = "inflight"
    /\ pollsSent = continued + inflight
         + (IF PollEnded /\ lastResponse \notin {"", "authorization_pending", "slow_down"}
            THEN 1 ELSE 0)
         + (IF PollEnded /\ pollResult = "token exchange failed" /\ pollCtx # "live"
            THEN 1 ELSE 0)

C25_OneAtATime ==
    /\ pollsSent' > pollsSent
          => (inflight = 0 /\ continued = pollsSent /\ pollsSent' = pollsSent + 1)
    /\ UITick => (pollsSent' = pollsSent /\ inflight' = inflight /\ ppc' = ppc
                  /\ pollInterval' = pollInterval)
    /\ uiTicks' # uiTicks => (UITick /\ ppc = "wait")

\* C25: in one device-flow run at most one poll request is in flight at any
\* time, every answer is processed before the next request is sent, and a
\* UI tick never sends a request.
C25_NoOverlappingPolls == []C25_AtMostOneInFlight /\ [][C25_OneAtATime]_vars

\* C25 witness: the second request is in flight after the first was answered
\* and a progress dot was printed in between.
C25_Witness ==
    /\ ppc = "inflight"
    /\ inflight = 1
    /\ pollsSent = 2
    /\ continued = 1
    /\ uiTicks >= 1

(***************************************************************************)
(* PROPERTIES OF THE ENVIRONMENT PROBE                                     *)
(***************************************************************************)

InSSH(env) == env.SSH_TTY \/ env.SSH_CLIENT \/ env.SSH_CONNECTION
HasDisplay(env) == env.DISPLAY \/ env.WAYLAND_DISPLAY

\* C26: checkBrowserAvailability returns available exactly when none of (in
\* SSH and no display), (Linux and no display), (the bind of the port fails)
\* holds; the reason is that of the first of the three that holds, in this
\* order, and is empty exactly when the result is available; the probe's
\* listener is closed before it returns.
C26_ProbeResult ==
    qpc = "returned"
    => /\ probeRes.Available
             <=> /\ ~(InSSH(probeEnv) /\ ~HasDisplay(probeEnv))
                 /\ ~(probeEnv.linux /\ ~HasDisplay(probeEnv))
                 /\ probeEnv.portFree
       /\ probeRes.Reason =
             (IF InSSH(probeEnv) /\ ~HasDisplay(probeEnv)
              THEN "SSH session without display forwarding"
              ELSE IF probeEnv.linux /\ ~HasDisplay(probeEnv)
              THEN "no display server (DISPLAY/WAYLAND_DISPLAY not set)"
              ELSE IF ~probeEnv.portFree THEN "callback port unavailable"
              ELSE "")
       /\ probeRes.Reason # "" <=> ~probeRes.Available
       /\ probeLn # "open"
       /\ probeRes.Available => probeLn = "closed"
       /\ (~HasDisplay(probeEnv) /\ (InSSH(probeEnv) \/ probeEnv.linux)) => probeLn = "none"
       /\ probeRes.Available = checkBrowserAvailability(probeEnv)

\* C26 witness: an SSH session on Linux with X11 forwarding and a free port:
\* the probe has returned available and has closed its listener.
C26_Witness ==
    /\ qpc = "returned"
    /\ probeEnv.SSH_TTY /\ probeEnv.linux /\ probeEnv.DISPLAY /\ probeEnv.portFree
    /\ probeRes = [Available |-> TRUE, Reason |-> ""]
    /\ probeLn = "closed"

\* C27: the probe is monotone: after the SSH variables were cleared, a
\* display was set, or both, a result that was available is still available;
\* after the callback port was occupied, a result that was unavailable is
\* still unavailable.
C27_ProbeMonotone ==
    (qpc = "returned" /\ change # "none")
    => /\ (change \in {"clear_ssh", "set_display", "clear_ssh_set_display"}
             /\ prevRes.Available) => probeRes.Available
       /\ (change = "occupy_port" /\ ~prevRes.Available) => ~probeRes.Available
       /\ change = "occupy_port" => ~probeRes.Available

\* C27 witness: an SSH session without display was unavailable; with the SSH
\* variables cleared and a display set the second run is available.
C27_Witness ==
    /\ qpc = "returned"
    /\ change = "clear_ssh_set_display"
    /\ InSSH(prevEnv) /\ ~HasDisplay(prevEnv)
    /\ ~prevRes.Available
    /\ probeRes.Available

\* The three conditions on a token response body.
Acceptable(b) ==
    /\ Len(b.access_token) >= 10
    /\ b.expires_in > 0
    /\ b.token_type \in {"", "Bearer"}

\* An exchange or a refresh has handled a parsed 200 answer.
AnswerHandled ==
    /\ opc \in {"saving", "ended"}
    /\ opKind \in {"browser", "refresh"}
    /\ ~opResp.transport /\ opResp.status = 200 /\ opResp.json

\* C28: validateTokenResponse accepts a response exactly when the access
\* token has at least 10 characters, expires_in is positive and token_type
\* is empty or "Bearer"; when it rejects, the code exchange and the refresh
\* return an error, build no record, start no save and leave the token file
\* as it was; every record they hand to saveTokens, and so every record they
\* write, has an access token of at least 10 characters and an expiry
\* computed from a positive lifetime.
C28_ValidatedBeforePersisting ==
    /\ \A b \in AnswerBodies :
         (validateTokenResponse(b.access_token, b.token_type, b.expires_in) = "")
           <=> Acceptable(b)
    /\ AnswerHandled =>
         /\ (opErr = "") <=> Acceptable(opResp.body)
         /\ ~Acceptable(opResp.body) =>
              /\ opErr = "invalid_token_response"
              /\ opStorage = NoRecord
              /\ opc = "ended"
              /\ pc[OpWriter] = "idle"
              /\ ReadFile = fileBefore
    /\ \A w \in Writers :
         rec[w] # NoRecord =>
           /\ Len(rec[w].AccessToken) >= 10
           /\ rec[w].ExpiresAt = ExpiryOf(3600)
    /\ LoadTokens(configuredClientID).kind = "ok" =>
         \/ LoadTokens(configuredClientID).rec = StoredBefore
         \/ /\ Len(LoadTokens(configuredClientID).rec.AccessToken) >= 10
            /\ LoadTokens(configuredClientID).rec.ExpiresAt.wall = ExpiryOf(3600).wall

\* C28 witness: with a token file present, a refresh was answered by a
\* Bearer token of nine characters with a positive lifetime and has ended
\* with the error, the file untouched.
C28_Witness ==
    /\ opc = "ended"
    /\ opKind = "refresh"
    /\ opResp.status = 200 /\ opResp.json
    /\ opResp.body.access_token = "nine-char"
    /\ opResp.body.token_type = "Bearer"
    /\ opResp.body.expires_in = 3600
    /\ opErr = "invalid_token_response"
    /\ ReadFile = fileBefore
    /\ ~fileBefore.err

\* A code-exchange request of the current browser attempt has been sent.
ExchangeRequested ==
    /\ opKind = "browser"
    /\ opc \in {"exchange_sent", "saving", "ended"}

\* C29: every code-exchange request carries code_verifier, and it is the
\* verifier whose S256 challenge is in the authorization URL built by the
\* same attempt; client_secret is in the form exactly when a non-empty
\* client secret is configured, and then it is that secret.
C29_PKCEBinding ==
    ExchangeRequested =>
      /\ "code_verifier" \in DOMAIN form
      /\ "code_verifier" \in DOMAIN form =>
           /\ form["code_verifier"] = pkce.Verifier
           /\ form["code_verifier"] = GeneratePKCE(ops + 1).Verifier
           /\ S256(form["code_verifier"]) = authURL.code_challenge
      /\ authURL.code_challenge_method = "S256"
      /\ ("client_secret" \in DOMAIN form) <=> (clientSecret # "")
      /\ "client_secret" \in DOMAIN form => form["client_secret"] = clientSecret

\* C29 witness: a confidential client's second browser attempt has sent its
\* exchange request with the second verifier and the secret.
C29_Witness ==
    /\ opc = "exchange_sent"
    /\ opKind = "browser"
    /\ ops = 1
    /\ clientSecret = "secret"
    /\ DOMAIN form = {"grant_type", "code", "redirect_uri", "client_id",
                      "code_verifier", "client_secret"}
    /\ form["code_verifier"] = "verifier-2"
    /\ authURL.code_challenge = S256("verifier-2")

\* C30: every token record in the store carries a flow label that is
\* "browser" or "device" and names the flow which obtained the tokens, after
\* any sequence of browser-flow saves, device-flow saves and refresh saves
\* (looked at between the saves).
C30_FlowLabelKept ==
    (opc # "saving" /\ LoadTokens(configuredClientID).kind = "ok") =>
      /\ LoadTokens(configuredClientID).rec.Flow \in {"browser", "device"}
      /\ LoadTokens(configuredClientID).rec.Flow = origin

\* The saveTokens call of the current exchange or refresh has returned an
\* error, and the operation has returned.
SaveFailedAfterSuccess ==
    /\ opc = "ended"
    /\ opKind \in {"browser", "refresh"}
    /\ pc[OpWriter] = "done"
    /\ result[OpWriter] \in SaveErrors

\* C31: when saveTokens fails after a successful code exchange or refresh
\* (the lock was not acquired, the temp file was not written, the rename
\* failed), performBrowserFlow and refreshAccessToken still return the record
\* built from the token endpoint's answer, and no error.
C31_SaveFailureIsNotAFailure ==
    SaveFailedAfterSuccess =>
      /\ opErr = ""
      /\ opStorage # NoRecord
      /\ opStorage.AccessToken = opResp.body.access_token
      /\ opStorage.ExpiresAt = ExpiryOf(opResp.body.expires_in)
      /\ opKind = "browser" => opStorage.Flow = "browser"

\* C31 witness: a refresh was answered with a valid token, the temp file
\* could not be written, and the refresh has returned.
C31_Witness ==
    /\ SaveFailedAfterSuccess
    /\ opKind = "refresh"
    /\ result[OpWriter] = "err_write"
    /\ opStorage.AccessToken = "ten-chars!"
    /\ ReadFile = fileBefore

\* The outcomes of loadTokens that say no tokens were found.
NotFoundKinds == {"not_exist", "no_tokens", "not_found"}

\* What the token file is, read off the file system: absent, not parsing,
\* parsing without a token mapping, or a mapping.
FileAbsent == fileIno = 0
FileUnparsable == fileIno # 0 /\ ~inode[fileIno].complete
FileWithoutMapping ==
    fileIno # 0 /\ inode[fileIno].complete /\ "null" \in DOMAIN inode[fileIno]
FileLacksClient(c) ==
    /\ fileIno # 0 /\ inode[fileIno].complete
    /\ "null" \notin DOMAIN inode[fileIno]
    /\ c \notin DOMAIN inode[fileIno].tokens

\* The outcome of the loadTokens call just made agrees with the file.
C32_LoadOutcome ==
    /\ FileAbsent => loaded.kind = "not_exist"
    /\ FileWithoutMapping => loaded.kind = "no_tokens"
    /\ FileLacksClient(loaded.cid) => loaded.kind = "not_found"
    /\ (FileAbsent \/ FileWithoutMapping \/ FileLacksClient(loaded.cid))
         <=> loaded.kind \in NotFoundKinds
    /\ FileUnparsable <=> loaded.kind = "parse_error"
    /\ loaded.kind = "parse_error" =>
         \A k \in NotFoundKinds :
           /\ LoadError(loaded.kind).msg # LoadError(k).msg
           /\ LoadError(loaded.kind).wraps # LoadError(k).wraps
    /\ loaded.kind # "ok" => (loaded.rec = NoRecord /\ LoadError(loaded.kind).msg # "")
    /\ loaded.kind = "ok" => LoadError(loaded.kind).msg = ""

\* C32: loadTokens fails with a not-found outcome when the token file is
\* absent, when it holds no token mapping, or when the mapping has no entry
\* for the configured client id; when the content does not parse it fails
\* with a parse error whose message and wrapped error differ from those of
\* every not-found outcome; a failing loadTokens returns no record.
C32_LoadFailures ==
    [][loaded' # loaded => (UNCHANGED <<fileIno, inode>> /\ C32_LoadOutcome')]_vars

\* C32 witness: loadTokens has failed with the parse error on an empty token
\* file that is still there.
C32_Witness ==
    /\ loaded.kind = "parse_error"
    /\ loaded.cid = "a"
    /\ loaded.rec = NoRecord
    /\ FileUnparsable

\* loadTokens has failed with "no tokens in file" on a file without mapping.
C32_WitnessNoMapping ==
    /\ loaded.kind = "no_tokens"
    /\ FileWithoutMapping

\* A writer is in the retry loop of acquireFileLock.
Acquiring(w) == pc[w] \in {"lock", "remove_stale"}

\* A sidecar older than the stale timeout never keeps a waiter waiting: the
\* waiter's next attempt finds it stale and goes on to remove it.
C33_StaleSidecarIsRemovable ==
    \A w \in Writers :
      (pc[w] = "lock" /\ lockOwner # 0 /\ lockStale) => ENABLED LockInspect(w)

\* A waiter that has removed a stale sidecar holds no lock yet, and a waiter
\* that gave up has the lock error and never entered the critical section.
C33_GaveUpWithError ==
    \A w \in Writers :
      (pc[w] = "done" /\ result[w] = "err_lock") => (lockOwner # w /\ rec[w] = NoRecord)

\* C33: acquiring the token-file lock always terminates: a live writer in
\* the retry loop leaves it, with the lock or with the error of the used-up
\* budget, and every saveTokens call returns (or its process has died); the
\* sidecar a crashed writer left behind is removable by a waiter as soon as
\* it is older than the stale timeout.
C33_LockAcquisitionTerminates ==
    /\ \A w \in Writers : Acquiring(w) ~> ~Acquiring(w)
    /\ \A w \in Writers : (pc[w] # "idle") ~> Finished(w)
    /\ []C33_StaleSidecarIsRemovable
    /\ []C33_GaveUpWithError

\* C33 witness: the holder has crashed and left its sidecar, which is now
\* older than the stale timeout; a waiter has found it stale and is about to
\* remove it.
C33_Witness ==
    \E h, w \in Writers :
      /\ h # w
      /\ pc[h] = "crashed"
      /\ lockOwner = h /\ lockStale
      /\ pc[w] = "remove_stale"

\* saveTokens has returned after it had acquired the lock.
ReturnedAfterAcquiring(w) == pc[w] = "done" /\ result[w] # "err_lock"

\* C34: once saveTokens has acquired the lock, the lock is released on every
\* return path (success, serialization error, temp-file write error, rename
\* error): every such path runs the deferred release, and after saveTokens
\* has returned the sidecar created by that call no longer exists.
C34_LockReleasedOnEveryPath ==
    \A w \in Writers :
      /\ (result[w] \notin {"none", "err_lock"} /\ pc[w] # "crashed")
           => pc[w] \in {"release", "done"}
      /\ ReturnedAfterAcquiring(w) =>
           /\ result[w] \in {"ok", "err_marshal", "err_write", "err_rename",
                             "err_rename_remove"}
           /\ lockOwner # w

\* C34 witness: one call has returned the serialization error and another
\* one the write error, and no sidecar is left.
C34_Witness ==
    \E v, w \in Writers :
      /\ ReturnedAfterAcquiring(v) /\ result[v] = "err_marshal"
      /\ ReturnedAfterAcquiring(w) /\ result[w] = "err_write"
      /\ lockOwner = 0

\* The saveTokens call of the current operation has returned.
SaveReturned == opc \in {"saving", "ended"} /\ pc[OpWriter] = "done"

\* C35: whenever saveTokens returns an error (lock not acquired, temp file
\* not written, rename failed) the token file has exactly the content it had
\* before the call; after a failed rename the temp file has been removed and
\* the error is the rename failure alone, or the removal failed too, the temp
\* file is still there and the error reports both failures.
C35_FailedSaveLeavesFile ==
    SaveReturned =>
      /\ result[OpWriter] \in SaveErrors => ReadFile = fileBefore
      /\ result[OpWriter] = "err_rename" => tmpIno = 0
      /\ result[OpWriter] = "err_rename_remove" => tmpIno # 0
      /\ result[OpWriter] \in {"err_rename", "err_rename_remove"} =>
           result[OpWriter] = RenameError(tmpIno # 0)

\* C35 witness: over an existing token file the rename has failed and the
\* removal of the temp file too; saveTokens has returned the error naming
\* both, and the token file is as it was.
C35_Witness ==
    /\ SaveReturned
    /\ result[OpWriter] = "err_rename_remove"
    /\ tmpIno # 0
    /\ ~fileBefore.err
    /\ ReadFile = fileBefore

\* A successful rename by w over a token file that is absent or does not
\* parse leaves a mapping with the one entry of w's record.
C36_FreshMappingStep ==
    \A w \in Writers :
        (pc[w] = "rename" /\ pc'[w] = "release" /\ result'[w] = "ok"
           /\ (FileAbsent \/ FileUnparsable))
        => LET new == UnmarshalMap(inode'[fileIno']) IN
             /\ new.ok /\ ~new.nil
             /\ DOMAIN new.Tokens = {rec[w].ClientID}
             /\ RecEqual(new.Tokens[rec[w].ClientID], rec[w])

\* Reading a file that does not parse is no error of saveTokens: the call
\* goes on to write.
C36_ReadNeverFails ==
    \A w \in Writers :
        (pc[w] = "read" /\ pc'[w] \notin {"read", "crashed"})
        => (pc'[w] = "write_open" /\ result'[w] = "none")

\* Every entry is stored under its own, non-empty client id.
C36_KeyIsClientID ==
    /\ \A w \in Writers : pc[w] \notin {"idle", "done", "crashed"} => rec[w].ClientID # ""
    /\ FileParses =>
         \A c \in DOMAIN FileTokens : c # "" /\ FileTokens[c].ClientID = c

\* C36: when the existing token file does not parse or is absent,
\* saveTokens(R) is not stopped by it and the file it leaves is a mapping
\* with exactly one entry, R under R.client_id; an empty R.client_id is set
\* to the configured client id first, so no entry is ever stored under a key
\* different from its client_id field.
C36_SaveOverUnreadableFile ==
    /\ []C36_KeyIsClientID
    /\ [][C36_FreshMappingStep]_vars
    /\ [][C36_ReadNeverFails]_vars

\* C36 witness: the first saveTokens call, whose file was absent or empty,
\* has renamed; the file holds the one entry of client b.
C36_Witness ==
    \E w \in Writers :
      /\ pc[w] = "release" /\ result[w] = "ok"
      /\ \A v \in Writers \ {w} : pc[v] = "idle"
      /\ rec[w].ClientID = "b"
      /\ FileParses
      /\ DOMAIN FileTokens = {"b"}
      /\ FileTokens["b"].ClientID = "b"

\* What the makeAPICallWithAutoRefresh calls of main returned, in order.
IsApiReturn(e) == e \in {"api_nil", "api_expired", "api_error"}
ApiReturns == SelectSeq(ran, IsApiReturn)
MainExited == mpc \in {"exit0", "exit1"}

\* C37: in the API-call phase main re-authenticates at most once, and only
\* right after its first makeAPICallWithAutoRefresh returned
\* ErrRefreshTokenExpired; that return always starts the re-authentication;
\* a second call is made only after a re-authentication that succeeded and
\* is the last one; when the re-authentication fails, or the second call
\* returns any error (ErrRefreshTokenExpired included), the program exits
\* with code 1 without authenticating again.
C37_OneReauthentication ==
    /\ Count(ran, "reauthenticate") <= 1
    /\ Count(ran, "authenticate") <= 1
    /\ Count(ran, "api_call") <= 2
    /\ \A i \in 1..Len(ran) :
          /\ ran[i] = "reauthenticate" =>
                i > 1 /\ ran[i - 1] = "api_expired" /\ Count(SubSeq(ran, 1, i), "api_call") = 1
          /\ ran[i] = "authenticate" => i > 1 /\ ran[i - 1] = "reauthenticate"
          /\ (ran[i] = "api_call" /\ i > 1) =>
                Count(SubSeq(ran, 1, i), "authenticate") = 1 /\ authErr = NoError
    /\ (Len(ApiReturns) >= 1 /\ ApiReturns[1] = "api_expired") => Reauthenticating
    /\ (Len(ApiReturns) >= 1 /\ ApiReturns[1] # "api_expired") =>
          (MainExited /\ mpc = "exit0" /\ ~Reauthenticating)
    /\ (Reauthenticating /\ MainExited) =>
          IF authErr # NoError
          THEN mpc = "exit1" /\ Count(ran, "api_call") = 1
          ELSE /\ Count(ran, "api_call") = 2
               /\ Len(ApiReturns) = 2
               /\ mpc = (IF ApiReturns[2] = "api_nil" THEN "exit0" ELSE "exit1")

\* The call made after the re-authentication returned ErrRefreshTokenExpired
\* too, and the program has exited with code 1.
C37_Witness ==
    /\ mpc = "exit1"
    /\ ApiReturns = <<"api_expired", "api_expired">>
    /\ Count(ran, "reauthenticate") = 1
    /\ authErr = NoError

\* openBrowser has returned without error: the browser holds the
\* authorization URL (performBrowserFlow lines 37-43).
BrowserOpens == mpc = "browser" /\ mpc' = "browser_wait" /\ fpc' = "callback"

\* C38: at the step in which the authorization URL is handed to the
\* browser the callback listener is already bound, and from then on, until
\* startCallbackServer returns, there is no moment at which the browser
\* holds the URL while no listener is bound on the callback port.
C38_ListenerBoundBeforeBrowserOpens ==
    /\ [][BrowserOpens => listening]_vars
    /\ []((mpc = "browser_wait" /\ fpc = "callback" /\ cpc \in {"init", "select", "waiting"})
           => listening)

\* The request is a redirect that carries a usable authorization code.
CarriesCode(q) ==
    q.path = "/callback" /\ q.error = "" /\ q.state = expectedState /\ q.code # ""

\* C39: in one browser-flow attempt exchangeCode is called at most once,
\* however many requests reach /callback, and when it is called the code it
\* is given is the code parameter of the one request whose result was
\* delivered, a request with no error parameter, with the state generated
\* for this attempt and with a non-empty code.
C39_OneExchangeWithDeliveredCode ==
    /\ exchangeCalls <= 1
    /\ exchangeCalls = 1 =>
          /\ deliveredBy \in Requests
          /\ sends = 1
          /\ CarriesCode(req[deliveredBy])
          /\ outcome.kind = "code"
          /\ outcome.code = req[deliveredBy].code

\* Two redirects with a usable code were handled and one exchange was made.
C39_Witness ==
    /\ exchangeCalls = 1
    /\ fpc = "done"
    /\ \A h \in Requests : hpc[h] = "done" /\ CarriesCode(req[h])

\* The deferred release of writer w runs in this step.
Releases(w) == pc[w] = "release" /\ pc'[w] = "done"

\* C40: the release of a saveTokens call removes no sidecar but its own:
\* when the .lock that exists at the release was created by another writer
\* (this writer's was taken over as stale), the release leaves it in place.
C40_ReleaseRemovesOwnSidecarOnly ==
    [][\A w \in Writers :
          (Releases(w) /\ lockOwner \in Writers \ {w}) => lockOwner' = lockOwner]_vars
====
